---- MODULE Spec2Model ----
(***************************************************************************)
(* Model of the sentence locator of the browser extension                  *)
(* (browser-extension/src/highlight.ts): text-node collection, text        *)
(* normalisation, the word matcher with its offset mapping, container      *)
(* resolution and the locateSentences orchestrator with its claim set.     *)
(*                                                                         *)
(* Strings are sequences of characters; a character is a one-element       *)
(* string, or a name for a non-ASCII character:                            *)
(*   "LSQ" U+2018, "RSQ" U+2019, "LDQ" U+201C, "RDQ" U+201D,               *)
(*   "EN" U+2013, "EM" U+2014, "ARROW" U+2192, "NL" line feed,             *)
(*   "IDOT" U+0130 (capital I with dot above), "DOT" U+0307 (combining     *)
(*   dot above).                                                           *)
(* Offsets are 0-based as in the source; s[i + 1] is the source's s[i].    *)
(***************************************************************************)
EXTENDS Integers, Sequences, FiniteSets, TLC

\* ------------------------------------------------------------ characters

\* JavaScript's \s, restricted to the characters of the model
WhiteSpace == {" ", "NL"}

\* the class [.,!?;:'"()\[\]] of the matcher
PunctClass == {".", ",", "!", "?", ";", ":", "'", "\"", "(", ")", "[", "]"}

(* String.prototype.toLowerCase on one character: the lower-case string.
   U+0130 is the one character whose lower case is two characters long
   (U+0069 U+0307) *)
lowerChar(c) ==
  CASE c = "A" -> <<"a">>
    [] c = "B" -> <<"b">>
    [] c = "IDOT" -> <<"i", "DOT">>
    [] OTHER -> <<c>>

\* String.prototype.toLowerCase
RECURSIVE toLowerCase(_)
toLowerCase(s) ==
  IF s = <<>> THEN <<>> ELSE lowerChar(Head(s)) \o toLowerCase(Tail(s))

\* the four substitutions of normalizeText that precede whitespace collapsing
substituteChar(c) ==
  CASE c \in {"LSQ", "RSQ"} -> "'"
    [] c \in {"LDQ", "RDQ"} -> "\""
    [] c \in {"EN", "EM"} -> "-"
    [] c = "ARROW" -> "-"
    [] OTHER -> c

\* .replace(/\s+/g, ' ') on a string whose characters are already substituted
RECURSIVE collapseWhitespace(_)
collapseWhitespace(s) ==
  IF s = <<>> THEN <<>>
  ELSE IF Head(s) \in WhiteSpace
       THEN IF Len(s) > 1 /\ s[2] \in WhiteSpace
            THEN collapseWhitespace(Tail(s))
            ELSE <<" ">> \o collapseWhitespace(Tail(s))
       ELSE <<Head(s)>> \o collapseWhitespace(Tail(s))

\* String.prototype.trim
RECURSIVE trimStart(_)
trimStart(s) ==
  IF s # <<>> /\ Head(s) \in WhiteSpace THEN trimStart(Tail(s)) ELSE s

RECURSIVE trimEnd(_)
trimEnd(s) ==
  IF s # <<>> /\ s[Len(s)] \in WhiteSpace
  THEN trimEnd(SubSeq(s, 1, Len(s) - 1))
  ELSE s

trim(s) == trimEnd(trimStart(s))

normalizeText(text) ==
  trim(collapseWhitespace([i \in 1..Len(text) |-> substituteChar(text[i])]))

\* a variant that strips nothing
keepPunct(s) == s

\* .replace(/[.,!?;:'"()\[\]]/g, '')
stripPunct(s) == SelectSeq(s, LAMBDA c : c \notin PunctClass)

\* .replace(/-/g, '')
stripHyphen(s) == SelectSeq(s, LAMBDA c : c # "-")

\* ------------------------------------------------------------ extractWords

\* the matches of /\S+/g from 0-based position pos on, with their indices
RECURSIVE wordsFrom(_, _)
wordsFrom(sentence, pos) ==
  IF pos >= Len(sentence) THEN <<>>
  ELSE IF sentence[pos + 1] \in WhiteSpace THEN wordsFrom(sentence, pos + 1)
  ELSE LET stop == CHOOSE e \in (pos + 1)..Len(sentence) :
                     /\ \A k \in pos..(e - 1) : sentence[k + 1] \notin WhiteSpace
                     /\ (e = Len(sentence) \/ sentence[e + 1] \in WhiteSpace)
       IN  <<[word |-> SubSeq(sentence, pos + 1, stop), index |-> pos]>>
             \o wordsFrom(sentence, stop)

extractWords(sentence) == wordsFrom(sentence, 0)

\* ------------------------------------------------------------ the document

(* A document is the sequence of its nodes in document (pre-)order.  A node
   is [kind, tag, parent, content]: kind is "element" or "text", parent is
   the index of the parent element (0: none), content is a text node's
   character data.  Node 1 is the HTML element, node 2 is document.body. *)
NoNode == 0

documentBody == 2

element(tag, parent) ==
  [kind |-> "element", tag |-> tag, parent |-> parent, content |-> <<>>]

text(parent, content) ==
  [kind |-> "text", tag |-> "#text", parent |-> parent, content |-> content]

(* An attribute of an element: kind "attr", tag the attribute's name, parent
   the owning element, content the value.  Attributes are not text nodes:
   a walker that shows text (NodeFilter.SHOW_TEXT) never visits them. *)
attribute(name, owner, value) ==
  [kind |-> "attr", tag |-> name, parent |-> owner, content |-> value]

\* Node.parentElement
parentElement(d, n) == d[n].parent

\* Node.contains: anc is n or an ancestor of n
RECURSIVE contains(_, _, _)
contains(d, anc, n) ==
  IF n = NoNode THEN FALSE
  ELSE IF n = anc THEN TRUE
  ELSE contains(d, anc, d[n].parent)

\* ------------------------------------------------------------ getTextNodes

\* a variant of the filter that accepts a leaf of whitespace
acceptNodeAnyContent(d, textNode) ==
  LET parent == parentElement(d, textNode)
  IN  /\ parent # NoNode
      /\ d[parent].tag \notin {"SCRIPT", "STYLE", "NOSCRIPT"}

\* the acceptNode filter of the tree walker
acceptNode(d, textNode) ==
  LET parent == parentElement(d, textNode)
  IN  /\ parent # NoNode
      /\ d[parent].tag \notin {"SCRIPT", "STYLE", "NOSCRIPT"}
      /\ trim(d[textNode].content) # <<>>

RECURSIVE walkFrom(_, _, _)
walkFrom(d, root, n) ==
  IF n > Len(d) THEN <<>>
  ELSE IF /\ d[n].kind = "text"
          /\ n # root
          /\ contains(d, root, n)
          /\ acceptNode(d, n)
       THEN <<n>> \o walkFrom(d, root, n + 1)
       ELSE walkFrom(d, root, n + 1)

\* a variant whose walker shows attribute values as well as text
getTextNodesAndAttributes(d, node) ==
  SelectSeq([n \in 1..Len(d) |-> n],
            LAMBDA n : /\ d[n].kind \in {"text", "attr"}
                       /\ n # node
                       /\ contains(d, node, n)
                       /\ acceptNode(d, n))

getTextNodes(d, node) == walkFrom(d, node, 1)

\* ------------------------------------------------------------ getTextNodesInRange

(* A Range is [startContainer, endContainer, endBefore]: the nodes that hold
   its two boundary points, here text nodes (a selection that starts and
   ends inside text). A range is live: when the text node of its end point
   is replaced the end point moves to the place just before the replacement
   (endBefore). NoRange stands for an absent options.range. *)
NoRange == [startContainer |-> NoNode, endContainer |-> NoNode, endBefore |-> FALSE]

\* Range.commonAncestorContainer: the deepest node that contains both
RECURSIVE commonAncestor(_, _, _)
commonAncestor(d, a, b) ==
  IF a = NoNode THEN NoNode
  ELSE IF contains(d, a, b) THEN a
  ELSE commonAncestor(d, d[a].parent, b)

(* Range.intersectsNode for a text node: the node does not end before the
   start point and does not begin after the end point; the points lie inside
   text nodes, and document order is the order of the indices *)
\* a variant for which every node intersects the range
intersectsAnyNode(range, textNode) == TRUE

intersectsNode(range, textNode) ==
  /\ range.startContainer <= textNode
  /\ IF range.endBefore THEN textNode < range.endContainer
     ELSE textNode <= range.endContainer

getTextNodesInRange(d, range) ==
  LET ancestor == commonAncestor(d, range.startContainer, range.endContainer)
      root == IF d[ancestor].kind = "element" THEN ancestor
              ELSE parentElement(d, ancestor)
  IN  IF root = NoNode THEN <<>>
      ELSE SelectSeq(getTextNodes(d, root),
                     LAMBDA textNode : intersectsNode(range, textNode))

\* ------------------------------------------------------------ getContainerElement

meaningfulTags ==
  {"P", "H1", "H2", "H3", "H4", "H5", "H6",
   "DIV", "ARTICLE", "SECTION", "LI", "TD", "TH",
   "BLOCKQUOTE", "PRE", "A", "SPAN", "STRONG",
   "EM", "CODE", "LABEL", "FIGCAPTION", "SUMMARY", "DETAILS",
   "TITLE", "NAV", "HEADER", "FOOTER", "MAIN", "IMG"}

\* the while loop: the first element of the parent chain with a meaningful tag
RECURSIVE climb(_, _)
climb(d, e) ==
  IF e = NoNode THEN NoNode
  ELSE IF d[e].tag \in meaningfulTags THEN e
  ELSE climb(d, d[e].parent)

\* a variant that takes the first meaningful element of the document instead
\* of walking the leaf's parent chain
getContainerElementFirstInDocument(d, textNode) ==
  LET meaningful == {e \in DOMAIN d : d[e].tag \in meaningfulTags}
  IN  IF meaningful = {} THEN documentBody
      ELSE CHOOSE e \in meaningful : \A f \in meaningful : e <= f

\* a variant that takes the outermost meaningful ancestor, not the nearest
getContainerElementOutermost(d, textNode) ==
  LET meaningful == {e \in DOMAIN d : /\ e # textNode
                                      /\ contains(d, e, textNode)
                                      /\ d[e].tag \in meaningfulTags}
  IN  IF meaningful # {} THEN CHOOSE e \in meaningful : \A f \in meaningful : e <= f
      ELSE IF parentElement(d, textNode) # NoNode THEN parentElement(d, textNode)
      ELSE documentBody

\* a variant that never walks up: the leaf's parent, whatever its tag
getContainerElementParent(d, textNode) ==
  IF parentElement(d, textNode) # NoNode
  THEN parentElement(d, textNode)
  ELSE documentBody

getContainerElement(d, textNode) ==
  LET e == parentElement(d, textNode)
  IN  IF e # NoNode /\ d[e].tag \in meaningfulTags THEN e
      ELSE IF climb(d, e) # NoNode THEN climb(d, e)
      ELSE IF parentElement(d, textNode) # NoNode
           THEN parentElement(d, textNode)
           ELSE documentBody

\* ------------------------------------------------------------ findWordInTextNodes

occursAt(content, term, i) ==
  /\ i + Len(term) <= Len(content)
  /\ SubSeq(content, i + 1, i + Len(term)) = term

\* String.prototype.indexOf(term, from), -1 when absent
indexOf(content, term, from) ==
  LET hits == {i \in from..(Len(content) - 1) : occursAt(content, term, i)}
  IN  IF hits = {} THEN -1
      ELSE CHOOSE i \in hits : \A j \in hits : i <= j

\* /[\s.,!?;:'"()\[\]]/.test(c)
isBoundaryChar(c) == c \in WhiteSpace \cup PunctClass

\* the walk that maps foundIndex back to an offset of the original text
RECURSIVE startWalk(_, _, _, _)
startWalk(originalText, origPos, normPos, foundIndex) ==
  IF ~(origPos < Len(originalText) /\ normPos <= foundIndex) THEN -1
  ELSE IF normPos = foundIndex THEN origPos
  ELSE LET skipRun[p \in 0..Len(originalText)] ==
             IF p < Len(originalText) - 1 /\ originalText[p + 2] \in WhiteSpace
             THEN skipRun[p + 1]
             ELSE p
           q == IF originalText[origPos + 1] \in WhiteSpace
                THEN skipRun[origPos]
                ELSE origPos
       IN  startWalk(originalText, q + 1, normPos + 1, foundIndex)

\* the walk that counts searchTerm.length characters outside the class
RECURSIVE endWalk(_, _, _, _)
endWalk(originalText, actualEnd, matchedChars, termLength) ==
  IF ~(actualEnd < Len(originalText) /\ matchedChars < termLength)
  THEN actualEnd
  ELSE LET char == toLowerCase(<<originalText[actualEnd + 1]>>)
           inClass == \E i \in DOMAIN char : char[i] \in PunctClass \cup WhiteSpace
       IN  endWalk(originalText, actualEnd + 1,
                   IF ~inClass THEN matchedChars + 1 ELSE matchedChars,
                   termLength)

max(a, b) == IF a >= b THEN a ELSE b
min(a, b) == IF a <= b THEN a ELSE b

\* lines 157-197: the WordLocation of an accepted occurrence
makeMatch(d, textNode, word, searchTerm, foundIndex) ==
  LET originalText == d[textNode].content
      walked == startWalk(originalText, 0, 0, foundIndex)
      actualStart == IF walked = -1 THEN foundIndex ELSE walked
      actualEnd == endWalk(originalText, actualStart, 0, Len(searchTerm))
  IN  [word |-> word,
       textNode |-> textNode,
       startOffset |-> max(0, actualStart),
       endOffset |-> min(actualEnd, Len(originalText)),
       containerElement |-> getContainerElement(d, textNode)]

\* a variant that tests the character before the occurrence only
isWordBoundaryBefore(normalizedContent, searchTerm, foundIndex) ==
  LET charBefore == IF foundIndex > 0 THEN normalizedContent[foundIndex] ELSE " "
  IN  isBoundaryChar(charBefore) \/ foundIndex = 0

\* lines 148-154: the word-boundary test of an occurrence
isWordBoundary(normalizedContent, searchTerm, foundIndex) ==
  LET after == foundIndex + Len(searchTerm)
      charBefore == IF foundIndex > 0 THEN normalizedContent[foundIndex] ELSE " "
      charAfter == IF after < Len(normalizedContent)
                   THEN normalizedContent[after + 1] ELSE " "
  IN  /\ (isBoundaryChar(charBefore) \/ foundIndex = 0)
      /\ (isBoundaryChar(charAfter) \/ after = Len(normalizedContent))

\* lines 143-201: the scan of one search term in one text node
RECURSIVE scanTerm(_, _, _, _, _, _)
scanTerm(d, textNode, normalizedContent, searchTerm, word, searchPos) ==
  IF ~(searchPos < Len(normalizedContent)) THEN <<>>
  ELSE LET foundIndex == indexOf(normalizedContent, searchTerm, searchPos)
       IN  IF foundIndex = -1 THEN <<>>
           ELSE (IF isWordBoundary(normalizedContent, searchTerm, foundIndex)
                 THEN <<makeMatch(d, textNode, word, searchTerm, foundIndex)>>
                 ELSE <<>>)
                \o scanTerm(d, textNode, normalizedContent, searchTerm, word,
                            foundIndex + 1)

\* a variant that tries the hyphen-removed term first
searchTermsHyphenLast(strippedWord) ==
  LET noHyphenWord == stripHyphen(strippedWord)
  IN  IF strippedWord # noHyphenWord /\ Len(noHyphenWord) > 0
      THEN <<noHyphenWord, strippedWord>>
      ELSE <<strippedWord>>

\* lines 132-135
searchTermsOf(strippedWord) ==
  LET noHyphenWord == stripHyphen(strippedWord)
  IN  IF strippedWord # noHyphenWord /\ Len(noHyphenWord) > 0
      THEN <<strippedWord, noHyphenWord>>
      ELSE <<strippedWord>>

RECURSIVE scanTerms(_, _, _, _, _, _)
scanTerms(d, textNode, normalizedContent, searchTerms, word, t) ==
  IF t > Len(searchTerms) THEN <<>>
  ELSE (IF Len(searchTerms[t]) = 0 THEN <<>>
        ELSE scanTerm(d, textNode, normalizedContent, searchTerms[t], word, 0))
       \o scanTerms(d, textNode, normalizedContent, searchTerms, word, t + 1)

\* a variant that puts the matches of a text node after those of the text
\* nodes that follow it
RECURSIVE scanNodesBackwards(_, _, _, _, _, _)
scanNodesBackwards(d, textNodes, k, word, strippedWord, cache) ==
  IF k > Len(textNodes) THEN [matches |-> <<>>, cache |-> cache]
  ELSE LET textNode == textNodes[k]
           normalizedContent == toLowerCase(normalizeText(d[textNode].content))
           cache1 == IF textNode \in DOMAIN cache THEN cache
                     ELSE cache @@ (textNode :> normalizedContent)
           here == scanTerms(d, textNode, normalizedContent,
                             searchTermsOf(strippedWord), word, 1)
           rest == scanNodesBackwards(d, textNodes, k + 1, word, strippedWord, cache1)
       IN  [matches |-> rest.matches \o here, cache |-> rest.cache]

\* lines 125-203: the loop over the text nodes; the cache is filled on the way
RECURSIVE scanNodes(_, _, _, _, _, _)
scanNodes(d, textNodes, k, word, strippedWord, cache) ==
  IF k > Len(textNodes) THEN [matches |-> <<>>, cache |-> cache]
  ELSE LET textNode == textNodes[k]
           cached == textNode \in DOMAIN cache
           normalizedContent ==
             IF cached THEN cache[textNode]
             ELSE toLowerCase(normalizeText(d[textNode].content))
           cache1 == IF cached THEN cache
                     ELSE cache @@ (textNode :> normalizedContent)
           here == scanTerms(d, textNode, normalizedContent,
                             searchTermsOf(strippedWord), word, 1)
           rest == scanNodes(d, textNodes, k + 1, word, strippedWord, cache1)
       IN  [matches |-> here \o rest.matches, cache |-> rest.cache]

\* returns the matches and the text-node cache as the call leaves it
findWordInTextNodes(d, textNodes, word, textNodeCache) ==
  LET normalizedWord == toLowerCase(normalizeText(word))
      strippedWord == stripPunct(normalizedWord)
  IN  IF Len(strippedWord) = 0
      THEN [matches |-> <<>>, cache |-> textNodeCache]
      ELSE scanNodes(d, textNodes, 1, word, strippedWord, textNodeCache)

\* ------------------------------------------------------------ locateSentences

\* the first argument of locateSentences: the document, or null
NoDocument == "null"

TheDocument == "document"

\* no error was thrown
NoError == "none"

\* lines 212-222: the module-level id table; returns the table after the call
getTextNodeId(node, ids, nextId) ==
  IF node \in DOMAIN ids
  THEN [id |-> ids[node], ids |-> ids, nextId |-> nextId]
  ELSE [id |-> nextId, ids |-> ids @@ (node :> nextId), nextId |-> nextId + 1]

\* lines 224-227: the key `${nodeId}:${startOffset}:${endOffset}` as a triple
locationKey(loc, ids, nextId) ==
  LET got == getTextNodeId(loc.textNode, ids, nextId)
  IN  [key |-> <<got.id, loc.startOffset, loc.endOffset>>,
       ids |-> got.ids, nextId |-> got.nextId]

\* a variant of the find callback that never consults the claim set
findUnusedFirst(wordMatches, k, used, ids, nextId) ==
  IF k > Len(wordMatches) THEN [index |-> 0, ids |-> ids, nextId |-> nextId]
  ELSE LET keyed == locationKey(wordMatches[k], ids, nextId)
       IN  [index |-> k, ids |-> keyed.ids, nextId |-> keyed.nextId]

\* a variant that takes the last unused match instead of the first
RECURSIVE findUnusedLast(_, _, _, _, _)
findUnusedLast(wordMatches, k, used, ids, nextId) ==
  IF k > Len(wordMatches) THEN [index |-> 0, ids |-> ids, nextId |-> nextId]
  ELSE LET keyed == locationKey(wordMatches[k], ids, nextId)
           later == findUnusedLast(wordMatches, k + 1, used, keyed.ids, keyed.nextId)
       IN  IF later.index = 0 /\ keyed.key \notin used
           THEN [index |-> k, ids |-> later.ids, nextId |-> later.nextId]
           ELSE later

\* lines 265-268: wordMatches.find(match => !usedLocations.has(key)); index 0
\* when every match is used
RECURSIVE findUnused(_, _, _, _, _)
findUnused(wordMatches, k, used, ids, nextId) ==
  IF k > Len(wordMatches) THEN [index |-> 0, ids |-> ids, nextId |-> nextId]
  ELSE LET keyed == locationKey(wordMatches[k], ids, nextId)
       IN  IF keyed.key \notin used
           THEN [index |-> k, ids |-> keyed.ids, nextId |-> keyed.nextId]
           ELSE findUnused(wordMatches, k + 1, used, keyed.ids, keyed.nextId)

\* a variant that commits the match without usedLocations.add(key)
locateWordNoClaim(d, textNodes, word, acc) ==
  LET found == findWordInTextNodes(d, textNodes, word, acc.textNodeCache)
      wordMatches == found.matches
      unused == findUnused(wordMatches, 1, acc.usedLocations,
                           acc.textNodeIds, acc.nextTextNodeId)
  IN  IF unused.index # 0
      THEN [acc EXCEPT !.locations = Append(@, wordMatches[unused.index]),
                       !.textNodeCache = found.cache,
                       !.textNodeIds = unused.ids,
                       !.nextTextNodeId = unused.nextId]
      ELSE [acc EXCEPT !.textNodeCache = found.cache,
                       !.textNodeIds = unused.ids,
                       !.nextTextNodeId = unused.nextId]

\* a variant without the guard of line 270: it reads the key of the match it
\* did not find, which throws
locateWordUnguarded(d, textNodes, word, acc) ==
  LET found == findWordInTextNodes(d, textNodes, word, acc.textNodeCache)
      wordMatches == found.matches
      unused == findUnused(wordMatches, 1, acc.usedLocations,
                           acc.textNodeIds, acc.nextTextNodeId)
  IN  IF unused.index # 0
      THEN LET unusedMatch == wordMatches[unused.index]
               keyed == locationKey(unusedMatch, unused.ids, unused.nextId)
           IN  [acc EXCEPT !.locations = Append(@, unusedMatch),
                           !.usedLocations = @ \cup {keyed.key},
                           !.textNodeCache = found.cache,
                           !.textNodeIds = keyed.ids,
                           !.nextTextNodeId = keyed.nextId]
      ELSE [acc EXCEPT !.error = "TypeError"]

\* lines 261-275: one word of a sentence
locateWord(d, textNodes, word, acc) ==
  LET found == findWordInTextNodes(d, textNodes, word, acc.textNodeCache)
      wordMatches == found.matches
      unused == findUnused(wordMatches, 1, acc.usedLocations,
                           acc.textNodeIds, acc.nextTextNodeId)
  IN  IF unused.index # 0
      THEN LET unusedMatch == wordMatches[unused.index]
               keyed == locationKey(unusedMatch, unused.ids, unused.nextId)
           IN  [acc EXCEPT !.locations = Append(@, unusedMatch),
                           !.usedLocations = @ \cup {keyed.key},
                           !.textNodeCache = found.cache,
                           !.textNodeIds = keyed.ids,
                           !.nextTextNodeId = keyed.nextId]
      ELSE [acc EXCEPT !.textNodeCache = found.cache,
                       !.textNodeIds = unused.ids,
                       !.nextTextNodeId = unused.nextId]

\* lines 261-275: the loop over the words; a thrown error ends it
RECURSIVE locateWords(_, _, _, _, _)
locateWords(d, textNodes, words, w, acc) ==
  IF w > Len(words) \/ acc.error # NoError THEN acc
  ELSE locateWords(d, textNodes, words, w + 1,
                   locateWord(d, textNodes, words[w].word, acc))

\* a variant that pushes a result only for a sentence with locations
locateSentenceSkipEmpty(d, textNodes, sentenceObj, acc) ==
  LET words == extractWords(sentenceObj.sentence)
      done == locateWords(d, textNodes, words, 1,
                          [acc EXCEPT !.locations = <<>>])
  IN  IF done.locations = <<>> THEN done
      ELSE [done EXCEPT !.results =
              Append(@, [sentence |-> sentenceObj.sentence,
                         generated_prob |-> sentenceObj.generated_prob,
                         locations |-> done.locations])]

\* a variant that reports the normalised sentence text
locateSentenceNormalized(d, textNodes, sentenceObj, acc) ==
  LET words == extractWords(sentenceObj.sentence)
      done == locateWords(d, textNodes, words, 1,
                          [acc EXCEPT !.locations = <<>>])
  IN  [done EXCEPT !.results =
         Append(@, [sentence |-> normalizeText(sentenceObj.sentence),
                    generated_prob |-> sentenceObj.generated_prob,
                    locations |-> done.locations])]

\* lines 256-282: one sentence
locateSentence(d, textNodes, sentenceObj, acc) ==
  LET words == extractWords(sentenceObj.sentence)
      done == locateWords(d, textNodes, words, 1,
                          [acc EXCEPT !.locations = <<>>])
  IN  [done EXCEPT !.results =
         Append(@, [sentence |-> sentenceObj.sentence,
                    generated_prob |-> sentenceObj.generated_prob,
                    locations |-> done.locations])]

\* lines 256-282: the loop over the sentences; a thrown error ends it
RECURSIVE locateFrom(_, _, _, _, _)
locateFrom(d, textNodes, sentenceList, s, acc) ==
  IF s > Len(sentenceList) \/ acc.error # NoError THEN acc
  ELSE locateFrom(d, textNodes, sentenceList, s + 1,
                  locateSentence(d, textNodes, sentenceList[s], acc))

\* lines 243-249: the scope of the search
\* a variant in which the root element takes precedence over the range
scopeTextNodesRootFirst(d, opts) ==
  IF opts.rootElement # NoNode
  THEN getTextNodes(d, opts.rootElement)
  ELSE IF opts.range # NoRange
  THEN getTextNodesInRange(d, opts.range)
  ELSE getTextNodes(d, documentBody)

scopeTextNodes(d, opts) ==
  IF opts.range # NoRange
  THEN getTextNodesInRange(d, opts.range)
  ELSE IF opts.rootElement # NoNode
  THEN getTextNodes(d, opts.rootElement)
  ELSE getTextNodes(d, documentBody)

\* a variant in which the claim set outlives the call (a module-level set)
keepUsedLocations(prior) == prior

\* line 254: const usedLocations = new Set<string>(); prior is the claim set
\* the previous call left behind
newUsedLocations(prior) == {}

\* line 250: const textNodeCache = new Map<Text, string>()
newTextNodeCache(prior) == <<>>

(* line 248: doc.body is read only when the options name neither a range nor
   a root element; on a null doc the read throws a TypeError.  The tree
   walker is made by the global document (line 8), never by doc. *)
scopeError(handle, opts) ==
  IF opts.range = NoRange /\ opts.rootElement = NoNode /\ handle = NoDocument
  THEN "TypeError"
  ELSE NoError

(* The call as a whole.  handle is the argument doc, d the tree of the global
   document; ids and nextId are the module-level textNodeIds and
   nextTextNodeId as the call finds them; the result carries them as the
   call leaves them, with the call's results, claim set and cache, and the
   error the call threw, if any. *)
locateSentences(handle, d, sentenceList, opts, ids, nextId, priorUsed, priorCache) ==
  IF scopeError(handle, opts) # NoError
  THEN [results |-> <<>>,
        locations |-> <<>>,
        usedLocations |-> priorUsed,
        textNodeCache |-> priorCache,
        textNodeIds |-> ids,
        nextTextNodeId |-> nextId,
        error |-> scopeError(handle, opts)]
  ELSE locateFrom(d, scopeTextNodes(d, opts), sentenceList, 1,
                  [results |-> <<>>,
                   locations |-> <<>>,
                   usedLocations |-> newUsedLocations(priorUsed),
                   textNodeCache |-> newTextNodeCache(priorCache),
                   textNodeIds |-> ids,
                   nextTextNodeId |-> nextId,
                   error |-> NoError])

\* ------------------------------------------------------------ highlighting

(* content_script.ts 108-116; the probability is kept in hundredths, so the
   thresholds 0.7 and 0.4 are 70 and 40 *)
getHighlightColor(generatedProb) ==
  IF generatedProb > 70 THEN "rgba(220, 53, 69, 0.3)"
  ELSE IF generatedProb > 40 THEN "rgba(255, 193, 7, 0.3)"
  ELSE "rgba(40, 167, 69, 0.3)"

\* String.prototype.substring: both indices clamped to the string, swapped
\* when the first is the larger
substring(str, from, to) ==
  LET a == max(0, min(from, Len(str)))
      b == max(0, min(to, Len(str)))
  IN  SubSeq(str, min(a, b) + 1, max(a, b))

\* the keys of a Map filled by has/set in the order of locs: the text nodes
\* in the order of their first location
RECURSIVE mapKeys(_, _, _)
mapKeys(locs, k, keys) ==
  IF k > Len(locs) THEN keys
  ELSE mapKeys(locs, k + 1,
               IF \E i \in DOMAIN keys : keys[i] = locs[k].textNode THEN keys
               ELSE Append(keys, locs[k].textNode))

\* lines 152-176: one span per text node of one sentence, from the least
\* start to the greatest end of the sentence's locations in the node
spansOfSentence(sentenceResult) ==
  LET locations == sentenceResult.locations
      nodeMap == mapKeys(locations, 1, <<>>)
  IN  [k \in DOMAIN nodeMap |->
         LET nodeLocs == SelectSeq(locations, LAMBDA l : l.textNode = nodeMap[k])
             minStart == CHOOSE x \in {nodeLocs[i].startOffset : i \in DOMAIN nodeLocs} :
                           \A i \in DOMAIN nodeLocs : x <= nodeLocs[i].startOffset
             maxEnd == CHOOSE x \in {nodeLocs[i].endOffset : i \in DOMAIN nodeLocs} :
                         \A i \in DOMAIN nodeLocs : x >= nodeLocs[i].endOffset
         IN  [word |-> <<>>,
              textNode |-> nodeMap[k],
              startOffset |-> minStart,
              endOffset |-> maxEnd,
              containerElement |-> nodeLocs[1].containerElement,
              color |-> getHighlightColor(sentenceResult.generated_prob),
              tooltip |-> sentenceResult.generated_prob]]

\* lines 148-177: the spans of all sentences, in sentence order
RECURSIVE sentenceSpans(_, _)
sentenceSpans(locatedSentences, k) ==
  IF k > Len(locatedSentences) THEN <<>>
  ELSE spansOfSentence(locatedSentences[k]) \o sentenceSpans(locatedSentences, k + 1)

\* Array.prototype.sort with (a, b) => a.startOffset - b.startOffset: stable,
\* so spans with the same start keep their order
RECURSIVE sortByStart(_)
sortByStart(locs) ==
  IF locs = <<>> THEN <<>>
  ELSE LET sorted == sortByStart(SubSeq(locs, 1, Len(locs) - 1))
           loc == locs[Len(locs)]
           notAfter == SelectSeq(sorted, LAMBDA l : l.startOffset <= loc.startOffset)
           after == SelectSeq(sorted, LAMBDA l : l.startOffset > loc.startOffset)
       IN  notAfter \o <<loc>> \o after

\* a variant that keeps every span, overlapping or not
RECURSIVE mergeKeepAll(_, _, _)
mergeKeepAll(locs, k, mergedLocs) ==
  IF k > Len(locs) THEN mergedLocs
  ELSE mergeKeepAll(locs, k + 1, Append(mergedLocs, locs[k]))

\* lines 193-199: a span is kept when it starts at or after the end of the
\* span kept last
RECURSIVE merge(_, _, _)
merge(locs, k, mergedLocs) ==
  IF k > Len(locs) THEN mergedLocs
  ELSE merge(locs, k + 1,
             IF mergedLocs = <<>>
                  \/ locs[k].startOffset >= mergedLocs[Len(mergedLocs)].endOffset
             THEN Append(mergedLocs, locs[k])
             ELSE mergedLocs)

\* the children of a fragment: text nodes and mark elements
textPiece(str) ==
  [mark |-> FALSE, text |-> str, color |-> "", title |-> -1,
   startOffset |-> -1, endOffset |-> -1]

markPiece(str, loc) ==
  [mark |-> TRUE, text |-> str, color |-> loc.color, title |-> loc.tooltip,
   startOffset |-> loc.startOffset, endOffset |-> loc.endOffset]

\* lines 205-227: the text before each span and the mark of the span
RECURSIVE appendMarks(_, _, _, _, _)
appendMarks(fullText, mergedLocs, k, currentPos, fragment) ==
  IF k > Len(mergedLocs)
  THEN [fragment |-> fragment, currentPos |-> currentPos]
  ELSE LET loc == mergedLocs[k]
           before == IF loc.startOffset > currentPos
                     THEN <<textPiece(substring(fullText, currentPos, loc.startOffset))>>
                     ELSE <<>>
           mark == markPiece(substring(fullText, loc.startOffset, loc.endOffset), loc)
       IN  appendMarks(fullText, mergedLocs, k + 1, loc.endOffset,
                       fragment \o before \o <<mark>>)

\* lines 189-233: the fragment that replaces one text node
fragmentOf(fullText, locs) ==
  LET mergedLocs == merge(sortByStart(locs), 1, <<>>)
      marked == appendMarks(fullText, mergedLocs, 1, 0, <<>>)
  IN  IF marked.currentPos < Len(fullText)
      THEN Append(marked.fragment,
                  textPiece(substring(fullText, marked.currentPos, Len(fullText))))
      ELSE marked.fragment

\* lines 180-187: the spans of one text node, in the order of sentenceSpans
spansAt(spans, n) == SelectSeq(spans, LAMBDA l : l.textNode = n)

\* line 226: the marks of the fragments of the nodes from the k-th on, as
\* pairs of a text node and the position of the mark in its fragment
RECURSIVE marksFrom(_, _, _, _)
marksFrom(d, spans, nodeGroups, k) ==
  IF k > Len(nodeGroups) THEN <<>>
  ELSE (IF d[nodeGroups[k]].parent # NoNode
        THEN LET f == fragmentOf(d[nodeGroups[k]].content, spansAt(spans, nodeGroups[k]))
                 at == SelectSeq([i \in DOMAIN f |-> i], LAMBDA i : f[i].mark)
             IN  [i \in DOMAIN at |-> <<nodeGroups[k], at[i]>>]
        ELSE <<>>) \o marksFrom(d, spans, nodeGroups, k + 1)

(* lines 146-236 of highlightResults, after the call of locateSentences: the
   fragments by text node, for the nodes that have a span and a parent, and
   the marks pushed to activeHighlights *)
highlightLocated(d, locatedSentences) ==
  LET spans == sentenceSpans(locatedSentences, 1)
      nodeGroups == mapKeys(spans, 1, <<>>)
      replaced == {nodeGroups[k] : k \in {i \in DOMAIN nodeGroups :
                                           d[nodeGroups[i]].parent # NoNode}}
  IN  [fragments |-> [n \in replaced |-> fragmentOf(d[n].content, spansAt(spans, n))],
       activeHighlights |-> marksFrom(d, spans, nodeGroups, 1)]

\* the text of a fragment's children, in order
RECURSIVE textContent(_)
textContent(fragment) ==
  IF fragment = <<>> THEN <<>>
  ELSE fragment[1].text \o textContent(Tail(fragment))

(* lines 117-124, clearHighlights: every mark becomes a text node and
   normalize() joins the neighbouring text nodes of the body, so each
   replaced node is one text node again, a new one, holding the text of
   its fragment *)
clearedDocument(d, frags) ==
  [n \in DOMAIN d |->
     IF n \in DOMAIN frags
     THEN [d[n] EXCEPT !.content = textContent(frags[n])]
     ELSE d[n]]

\* ------------------------------------------------------------ selection mode

(* The state the handlers of selection mode read and write is a record
   [isActive, hoveredElement, listeners, outlined, cursor,
    lastAnalyzedElement, lastSelectionRange, analyses]. *)

\* lines 584-586: the listeners of selection mode, all with capture
selectionListeners ==
  {<<"mouseover", "onMouseOver">>, <<"mouseout", "onMouseOut">>, <<"click", "onClick">>}

\* lines 538-541
highlightElement(s, e) == [s EXCEPT !.outlined = @ \cup {e}]

\* lines 543-546
unhighlightElement(s, e) == [s EXCEPT !.outlined = @ \ {e}]

\* lines 580-588; addEventListener ignores a listener that is registered
activate(s) ==
  IF s.isActive THEN s
  ELSE [s EXCEPT !.isActive = TRUE,
                 !.cursor = "crosshair",
                 !.listeners = @ \cup selectionListeners]

\* a variant that leaves the outline on the hovered element
deactivateKeepOutline(s) ==
  IF ~s.isActive THEN s
  ELSE [s EXCEPT !.isActive = FALSE,
                 !.cursor = "",
                 !.listeners = @ \ selectionListeners,
                 !.hoveredElement = NoNode]

\* lines 590-602
deactivate(s) ==
  IF ~s.isActive THEN s
  ELSE LET off == [s EXCEPT !.isActive = FALSE,
                            !.cursor = "",
                            !.listeners = @ \ selectionListeners]
       IN  IF off.hoveredElement # NoNode
           THEN [unhighlightElement(off, off.hoveredElement) EXCEPT
                   !.hoveredElement = NoNode]
           ELSE off

\* lines 548-556
onMouseOver(s, target) ==
  IF ~s.isActive THEN s
  ELSE IF target = s.hoveredElement THEN s
  ELSE LET cleared == IF s.hoveredElement # NoNode
                      THEN unhighlightElement(s, s.hoveredElement) ELSE s
       IN  highlightElement([cleared EXCEPT !.hoveredElement = target], target)

\* lines 558-564
onMouseOut(s) ==
  IF ~s.isActive THEN s
  ELSE IF s.hoveredElement # NoNode
  THEN [unhighlightElement(s, s.hoveredElement) EXCEPT !.hoveredElement = NoNode]
  ELSE s

\* line 6
MAX_CHARS == 20000

\* lines 510-522 of analyzeText, up to its first await: whether the text is
\* analysed; the rest of the function runs after the awaits
analyzeText(s, str) ==
  IF trim(str) = <<>> THEN s
  ELSE IF Len(trim(str)) > MAX_CHARS THEN s
  ELSE [s EXCEPT !.analyses = @ + 1]

\* Node.textContent of an element: the text of the text nodes below it
RECURSIVE textBelow(_, _, _)
textBelow(d, e, n) ==
  IF n > Len(d) THEN <<>>
  ELSE (IF d[n].kind = "text" /\ n # e /\ contains(d, e, n) THEN d[n].content ELSE <<>>)
         \o textBelow(d, e, n + 1)

\* lines 566-578, up to the first await inside analyzeText
onClick(s, d, target) ==
  IF ~s.isActive THEN s
  ELSE analyzeText([deactivate(s) EXCEPT !.lastAnalyzedElement = target,
                                         !.lastSelectionRange = NoRange],
                   textBelow(d, target, 1))

\* Selection.toString for a selection that spans whole text nodes
RECURSIVE selectedText(_, _, _)
selectedText(d, range, n) ==
  IF n > Len(d) THEN <<>>
  ELSE (IF d[n].kind = "text" /\ intersectsNode(range, n) THEN d[n].content ELSE <<>>)
         \o selectedText(d, range, n + 1)

\* line 610: selection && selection.rangeCount > 0 && selection.toString().trim()
hasSelectedText(d, selection) ==
  selection # NoRange /\ trim(selectedText(d, selection, 1)) # <<>>

\* ------------------------------------------------------------ inputs

\* longest content of the leaf of the single-leaf documents
MaxLeafLen == 3

\* most text leaves of the several-leaf documents
MaxLeaves == 2

\* calls of locateSentences made on one document
MaxCalls == 2

sentenceObj(s, p) == [sentence |-> s, generated_prob |-> p]

join(w1, w2) == w1 \o <<" ">> \o w2

noOptions == [range |-> NoRange, rootElement |-> NoNode]

input(d, l, o) == [doc |-> d, sentences |-> l, options |-> o]

(* Family 1: one text leaf in a paragraph, with every content of up to
   MaxLeafLen characters, against sentences of one or two words. *)
TextChars == {"a", " ", "-", "RSQ", "IDOT"}

LeafContents == UNION {[1..k -> TextChars] : k \in 1..MaxLeafLen}

TextSentences ==
  {<<"a">>,
   <<"a", " ", "a">>,
   <<"a", "-", "a", " ", "a", "a">>,
   <<"a", "a", " ", "a", "-", "a">>}

textDoc(c) ==
  <<element("HTML", NoNode), element("BODY", 1), element("P", 2), text(3, c)>>

TextInputs ==
  {input(textDoc(c), <<sentenceObj(s, 50)>>, noOptions) :
     c \in LeafContents, s \in TextSentences}

(* Family 2: one to MaxLeaves paragraphs, each holding one leaf with one of
   the phrases, against one or two sentences. *)
Phrases ==
  {<<"a", " ", "b", " ", "a">>,
   <<"a">>,
   <<" ", "a", " ", "a">>,
   <<"LSQ", "B", "RSQ", ".", " ", "NL", "a", "EM", "b">>,
   <<"IDOT", "IDOT", " ", "a", "b", " ", "a", " ", "b">>}

PairSentences ==
  {<<"a", " ", "a">>,
   <<"a", " ", "b", " ", "a">>,
   <<"A", ".", " ", " ", "b">>,
   <<>>}

LeafSentences ==
  PairSentences
    \cup {<<"a", "-", "b", " ", "a", "b", " ", "a", "b", " ", "a">>,
          <<"(", "a", ")", " ", "!">>}

RECURSIVE paragraphs(_)
paragraphs(contents) ==
  IF contents = <<>> THEN <<>>
  ELSE LET before == paragraphs(SubSeq(contents, 1, Len(contents) - 1))
       IN  before \o <<element("P", 2),
                       text(Len(before) + 3, contents[Len(contents)])>>

leafDoc(contents) ==
  <<element("HTML", NoNode), element("BODY", 1)>> \o paragraphs(contents)

LeafDocs == {leafDoc(cs) : cs \in UNION {[1..k -> Phrases] : k \in 1..MaxLeaves}}

Probs == {0, 100}

LeafSentenceLists ==
  {<<>>}
    \cup {<<sentenceObj(s, p)>> : s \in LeafSentences, p \in Probs}
    \cup {<<sentenceObj(s, 0), sentenceObj(t, 100)>> :
            s \in PairSentences, t \in PairSentences}

LeafInputs == {input(d, l, noOptions) : d \in LeafDocs, l \in LeafSentenceLists}

(* Family 3: the shapes of the tree: a leaf below body directly, or below
   one or two nested elements, beside a second leaf in a table header cell;
   the search is scoped to the body or to one of the elements. *)
TreeTags == {"DIV", "SPAN", "B", "UL", "TH", "SCRIPT"}

TreeContent == <<"a", " ", "b">>

TreeDocs ==
  {<<element("HTML", NoNode), element("BODY", 1), text(2, TreeContent)>>}
    \cup {<<element("HTML", NoNode), element("BODY", 1), element(x, 2),
            text(3, TreeContent), text(2, TreeContent)>> : x \in TreeTags}
    \cup {<<element("HTML", NoNode), element("BODY", 1), element(x, 2),
            element(y, 3), text(4, TreeContent), text(3, TreeContent)>> :
            x \in TreeTags, y \in TreeTags}

TreeSentenceLists ==
  {<<sentenceObj(<<"a", " ", "b", " ", "a", " ", "b", " ", "a">>, p)>> : p \in Probs}

textNodesOf(d) == {n \in DOMAIN d : d[n].kind = "text"}

rangesOf(d) ==
  {NoRange}
    \cup {g \in [startContainer : textNodesOf(d), endContainer : textNodesOf(d),
                  endBefore : {FALSE}] :
            g.startContainer <= g.endContainer}

TreeInputs ==
  UNION {{input(d, l, [range |-> g, rootElement |-> r]) :
            l \in TreeSentenceLists,
            r \in {NoNode} \cup {n \in {2, 3} : d[n].kind = "element"},
            g \in rangesOf(d)} :
         d \in TreeDocs}

Inputs == TextInputs \cup LeafInputs \cup TreeInputs

(* Family 4: pages that render the sentences themselves: one paragraph per
   sentence, in sentence order, holding the sentence verbatim or in its
   typographic rendering (arrow for hyphen, curly for straight quote, a
   whitespace run for a space). *)
PageSentences ==
  {<<"a", " ", "b", " ", "-">>,
   <<"c", " ", "b">>,
   <<"IDOT", "IDOT", " ", " ", "a", " ", " ", "b">>,
   <<"a", "'", "b">>,
   <<"a", "b", " ", "a", "-", "b">>,
   <<"a", " ", "!">>}

typographicChar(c) ==
  CASE c = "-" -> <<"ARROW">>
    [] c = "'" -> <<"RSQ">>
    [] c = " " -> <<" ", "NL">>
    [] OTHER -> <<c>>

RECURSIVE typographic(_)
typographic(s) ==
  IF s = <<>> THEN <<>> ELSE typographicChar(Head(s)) \o typographic(Tail(s))

verbatim(s) == s

PageLists == UNION {[1..k -> PageSentences] : k \in 1..MaxLeaves}

pageSentenceList(l) == [k \in DOMAIN l |-> sentenceObj(l[k], 50)]

PageInputs ==
  {input(leafDoc([k \in DOMAIN l |-> verbatim(l[k])]), pageSentenceList(l), noOptions) :
     l \in PageLists}
    \cup {input(leafDoc([k \in DOMAIN l |-> typographic(l[k])]), pageSentenceList(l),
                noOptions) : l \in PageLists}

(* Family 5: pages with an image whose alt attribute holds the sentence,
   followed by up to MaxLeaves paragraphs whose text holds words of it. *)
AttrSentence == <<"a", " ", "b">>

AttrPhrases ==
  {<<"b", " ", "a">>, <<"a">>, <<"b">>, <<"a", " ", "b">>}

attrDoc(value, contents) ==
  <<element("HTML", NoNode), element("BODY", 1), element("IMG", 2),
    attribute("alt", 3, value)>>
    \o [k \in 1..(2 * Len(contents)) |->
          IF k % 2 = 1 THEN element("P", 2)
          ELSE text(4 + k - 1, contents[k \div 2])]

AttrInputs ==
  {input(attrDoc(AttrSentence, cs), <<sentenceObj(AttrSentence, p)>>, noOptions) :
     cs \in UNION {[1..k -> AttrPhrases] : k \in 0..MaxLeaves}, p \in Probs}

(* Family 6: the calls at the edge of the contract: a null doc, a scope in a
   subtree that is not part of the document, a page without text leaves, an
   empty sentence list, an empty sentence, a word the page does not hold. *)
EmptyDocs ==
  {<<element("HTML", NoNode), element("BODY", 1)>>,
   <<element("HTML", NoNode), element("BODY", 1), element("SCRIPT", 2),
     text(3, <<"a", " ", "b">>)>>,
   <<element("HTML", NoNode), element("BODY", 1), element("P", 2),
     text(3, <<" ", "NL">>)>>}

\* a paragraph in the body, a detached DIV with a leaf, a detached lone leaf
DetachedDoc ==
  <<element("HTML", NoNode), element("BODY", 1), element("P", 2),
    text(3, <<"a", " ", "b">>),
    element("DIV", NoNode), text(5, <<"b", " ", "a">>),
    text(NoNode, <<"a">>)>>

EdgeSentenceLists ==
  {<<>>,
   <<sentenceObj(<<>>, 0)>>,
   <<sentenceObj(<<"z">>, 0), sentenceObj(<<>>, 100)>>,
   <<sentenceObj(<<"a", " ", "b">>, 0), sentenceObj(<<"z", " ", "a">>, 100)>>}

EdgeScopes ==
  {[doc |-> d, options |-> [range |-> NoRange, rootElement |-> r]] :
     d \in EmptyDocs, r \in {NoNode, documentBody}}
    \cup {[doc |-> DetachedDoc,
           options |-> [range |-> g, rootElement |-> r]] :
            g \in {NoRange} \cup {[startContainer |-> n, endContainer |-> n, endBefore |-> FALSE] :
                                    n \in {4, 6, 7}},
            r \in {NoNode, 3, 5}}

\* a script, a paragraph of whitespace, a leaf in the body and a paragraph
MixedDoc ==
  <<element("HTML", NoNode), element("BODY", 1), element("SCRIPT", 2),
    text(3, <<"a", " ", "b">>),
    element("P", 2), text(5, <<" ", "NL">>),
    text(2, <<"a", " ", "b">>),
    element("P", 2), text(8, <<"b", " ", "a">>)>>

MixedScopes ==
  {[doc |-> MixedDoc, options |-> [range |-> g, rootElement |-> r]] :
     g \in rangesOf(MixedDoc), r \in {NoNode, documentBody, 8}}

(* a leaf in B in SPAN in DIV, a leaf in a list without any allow-listed
   element above it, and a leaf that has no parent element *)
NestedDoc ==
  <<element("HTML", NoNode), element("BODY", 1), element("DIV", 2),
    element("SPAN", 3), element("B", 4), text(5, <<"a", " ", "b">>),
    element("UL", 2), text(7, <<"b", " ", "a">>),
    text(NoNode, <<"a">>)>>

NestedScopes == {[doc |-> NestedDoc, options |-> noOptions]}

Handles == {TheDocument, NoDocument}

\* ------------------------------------------------------------ the state machine

VARIABLES
  docHandle,       \* the argument doc of the calls: the document, or null
  doc,             \* the tree of the global document
  sentences,       \* the sentences the detection client returned
  options,         \* the scope of the search
  textNodeIds,     \* module-level WeakMap<Text, number>
  nextTextNodeId,  \* module-level counter
  usedLocations,   \* the claim set of the latest call
  textNodeCache,   \* the normalisation cache of the latest call
  returned,        \* what each call returned, in call order
  thrown,          \* the error each call threw (NoError: it returned)
  activeHighlights,    \* content script: the marks in the page
  fragments,           \* the fragment in the place of each replaced text node
  lastAnalyzedElement, \* content script: the element clicked last, or null
  lastSelectionRange,  \* content script: the range analysed last, or null
  isActive,            \* content script: selection mode
  hoveredElement,      \* content script: the element under the pointer, or null
  listeners,           \* the capture listeners registered on the document
  outlined,            \* the elements whose style has the hover outline
  cursor,              \* document.body.style.cursor
  analyses,            \* the calls of analyzeText that have not settled
  captures,            \* browser.storage.local: the value of 'captures'
  saves                \* the calls of saveCapture

locatorVars == <<docHandle, doc, sentences, options, textNodeIds, nextTextNodeId,
                 usedLocations, textNodeCache, returned, thrown>>

highlightVars == <<activeHighlights, fragments, lastAnalyzedElement, lastSelectionRange>>

selectionVars == <<isActive, hoveredElement, listeners, outlined, cursor, analyses>>

captureVars == <<captures, saves>>

vars == <<locatorVars, highlightVars, selectionVars, captureVars>>

\* the content script as loaded (content_script.ts 7-11) in a tab whose
\* extension storage holds no capture
ScriptLoaded ==
  /\ isActive = FALSE
  /\ hoveredElement = NoNode
  /\ activeHighlights = <<>>
  /\ lastAnalyzedElement = NoNode
  /\ lastSelectionRange = NoRange
  /\ fragments = <<>>
  /\ listeners = {}
  /\ outlined = {}
  /\ cursor = ""
  /\ analyses = 0
  /\ captures = <<>>
  /\ saves = <<>>

\* the module as loaded (lines 212-213), before the first call
Loaded ==
  /\ textNodeIds = <<>>
  /\ nextTextNodeId = 0
  /\ usedLocations = {}
  /\ textNodeCache = <<>>
  /\ returned = <<>>
  /\ thrown = <<>>

Init ==
  /\ \E i \in Inputs :
       /\ doc = i.doc
       /\ sentences = i.sentences
       /\ options = i.options
  /\ docHandle = TheDocument
  /\ Loaded
  /\ ScriptLoaded

\* a caller runs locateSentences on the document
LocateSentences ==
  /\ Len(returned) < MaxCalls
  /\ LET out == locateSentences(docHandle, doc, sentences, options, textNodeIds,
                                nextTextNodeId, usedLocations, textNodeCache)
     IN  /\ returned' = Append(returned, out.results)
         /\ thrown' = Append(thrown, out.error)
         /\ usedLocations' = out.usedLocations
         /\ textNodeCache' = out.textNodeCache
         /\ textNodeIds' = out.textNodeIds
         /\ nextTextNodeId' = out.nextTextNodeId
  /\ UNCHANGED <<docHandle, doc, sentences, options>>
  /\ UNCHANGED <<highlightVars, selectionVars, captureVars>>

Next == LocateSentences

Spec == Init /\ [][Next]_vars

\* the calls a page makes whose text renders the sentences
InitPage ==
  /\ \/ \E i \in PageInputs \cup AttrInputs :
          /\ doc = i.doc
          /\ sentences = i.sentences
          /\ options = i.options
          /\ docHandle = TheDocument
     \/ \E e \in EdgeScopes \cup MixedScopes \cup NestedScopes, l \in EdgeSentenceLists, h \in Handles :
          /\ doc = e.doc
          /\ sentences = l
          /\ options = e.options
          /\ docHandle = h
  /\ Loaded
  /\ ScriptLoaded

SpecPage == InitPage /\ [][Next]_vars

\* ------------------------------------------------------------ highlighting the page

\* lines 133-144: the scope of the search of highlightResults
highlightOptions ==
  IF lastSelectionRange # NoRange
  THEN [range |-> lastSelectionRange, rootElement |-> NoNode]
  ELSE IF lastAnalyzedElement # NoNode
  THEN [range |-> NoRange, rootElement |-> lastAnalyzedElement]
  ELSE noOptions

\* the entries of the WeakMap whose text node is still part of the page
liveIds(ids, replaced) ==
  IF DOMAIN ids \subseteq replaced THEN <<>>
  ELSE [n \in DOMAIN ids \ replaced |-> ids[n]]

\* a live range after replaceChild put fragments in the place of text nodes
rangeAfterReplace(range, replaced) ==
  IF range # NoRange /\ range.endContainer \in replaced
  THEN [range EXCEPT !.endBefore = TRUE]
  ELSE range

(* The button of the result dialog (lines 438-443): clearHighlights(), then
   highlightResults(result) with the sentences of the result; generated_prob
   of the model's sentences is 1 - score. *)
HighlightButton ==
  /\ Len(returned) < MaxCalls
  /\ doc' = clearedDocument(doc, fragments)
  /\ LET ids == liveIds(textNodeIds, DOMAIN fragments)
         out == locateSentences(TheDocument, doc', sentences, highlightOptions,
                                ids, nextTextNodeId, usedLocations, textNodeCache)
         marked == highlightLocated(doc', returned'[Len(returned')])
     IN  /\ docHandle' = TheDocument
         /\ options' = highlightOptions
         /\ returned' = Append(returned, out.results)
         /\ thrown' = Append(thrown, out.error)
         /\ usedLocations' = out.usedLocations
         /\ textNodeCache' = out.textNodeCache
         /\ textNodeIds' = out.textNodeIds
         /\ nextTextNodeId' = out.nextTextNodeId
         /\ fragments' = marked.fragments
         /\ activeHighlights' = marked.activeHighlights
         /\ lastSelectionRange' = rangeAfterReplace(lastSelectionRange,
                                                    DOMAIN marked.fragments)
  /\ UNCHANGED <<sentences, lastAnalyzedElement, selectionVars, captureVars>>

\* lines 117-124: what clearHighlights does to the page and the script
clearHighlights ==
  /\ doc' = clearedDocument(doc, fragments)
  /\ textNodeIds' = liveIds(textNodeIds, DOMAIN fragments)
  /\ fragments' = <<>>
  /\ activeHighlights' = <<>>

\* the Clear button (lines 456-459) and the clearHighlights message (624-625)
ClearHighlights ==
  /\ clearHighlights
  /\ UNCHANGED <<docHandle, sentences, options, nextTextNodeId, usedLocations,
                 textNodeCache, returned, thrown>>
  /\ UNCHANGED <<lastAnalyzedElement, lastSelectionRange, selectionVars, captureVars>>

NextHighlight == HighlightButton \/ ClearHighlights

\* pages of one leaf with one of the phrases
PhraseInputs ==
  {input(leafDoc(<<c>>), l, noOptions) : c \in Phrases, l \in LeafSentenceLists}

\* a page after a click on one of its elements or after the analysis of a
\* selection
ScopedInputs ==
  {input(e.doc, l, e.options) :
     e \in {m \in MixedScopes : m.options.range = NoRange \/ m.options.rootElement = NoNode},
     l \in EdgeSentenceLists}

\* a leaf in which the words of two sentences alternate
OverlapInputs ==
  {input(leafDoc(<<<<"b", " ", "a", " ", "b", " ", "a">>>>),
         <<sentenceObj(s, 0), sentenceObj(t, 100)>>, noOptions) :
     s \in PairSentences \cup {<<"b", " ", "b">>},
     t \in PairSentences \cup {<<"b", " ", "b">>}}

HighlightInputs == PageInputs \cup PhraseInputs \cup ScopedInputs \cup OverlapInputs

\* the result dialog is open over a page without highlights
InitHighlight ==
  /\ \E i \in HighlightInputs :
       /\ doc = i.doc
       /\ sentences = i.sentences
       /\ options = i.options
       /\ lastSelectionRange = i.options.range
       /\ lastAnalyzedElement = i.options.rootElement
  /\ docHandle = TheDocument
  /\ Loaded
  /\ isActive = FALSE
  /\ hoveredElement = NoNode
  /\ activeHighlights = <<>>
  /\ fragments = <<>>
  /\ listeners = {}
  /\ outlined = {}
  /\ cursor = ""
  /\ analyses = 0
  /\ captures = <<>>
  /\ saves = <<>>

SpecHighlight == InitHighlight /\ [][NextHighlight]_vars

\* ------------------------------------------------------------ selection mode on a page

\* analyses in flight at one time
MaxAnalyses == 2

\* the state of the script the handlers of selection mode work on
script ==
  [isActive |-> isActive, hoveredElement |-> hoveredElement,
   listeners |-> listeners, outlined |-> outlined, cursor |-> cursor,
   lastAnalyzedElement |-> lastAnalyzedElement,
   lastSelectionRange |-> lastSelectionRange, analyses |-> analyses]

\* the handler leaves the script in state s
becomes(s) ==
  /\ isActive' = s.isActive
  /\ hoveredElement' = s.hoveredElement
  /\ listeners' = s.listeners
  /\ outlined' = s.outlined
  /\ cursor' = s.cursor
  /\ lastAnalyzedElement' = s.lastAnalyzedElement
  /\ lastSelectionRange' = s.lastSelectionRange
  /\ analyses' = s.analyses

\* the elements of the page the pointer can be over
targets == {n \in DOMAIN doc : doc[n].kind = "element" /\ n # 1}

\* the selections a reader makes: none, or whole text nodes of a page
\* without highlights
selections ==
  IF fragments = <<>>
  THEN {g \in rangesOf(doc) : g = NoRange \/ g.startContainer >= 6}
  ELSE {NoRange}

\* the browser delivers a mouseover to the listener registered for it
MouseOver ==
  /\ <<"mouseover", "onMouseOver">> \in listeners
  /\ \E target \in targets : becomes(onMouseOver(script, target))
  /\ UNCHANGED <<locatorVars, activeHighlights, fragments, captureVars>>

MouseOut ==
  /\ <<"mouseout", "onMouseOut">> \in listeners
  /\ becomes(onMouseOut(script))
  /\ UNCHANGED <<locatorVars, activeHighlights, fragments, captureVars>>

Click ==
  /\ <<"click", "onClick">> \in listeners
  /\ analyses < MaxAnalyses
  /\ \E target \in targets : becomes(onClick(script, doc, target))
  /\ UNCHANGED <<locatorVars, activeHighlights, fragments, captureVars>>

\* lines 605-623: the toggle message, up to the first await
Toggle ==
  \E selection \in selections :
    IF hasSelectedText(doc, selection)
    THEN /\ analyses < MaxAnalyses
         /\ becomes(analyzeText([script EXCEPT !.lastSelectionRange = selection,
                                               !.lastAnalyzedElement = NoNode],
                                selectedText(doc, selection, 1)))
         /\ UNCHANGED <<locatorVars, activeHighlights, fragments, captureVars>>
    ELSE IF Len(activeHighlights) > 0
    THEN /\ clearHighlights
         /\ UNCHANGED <<docHandle, sentences, options, nextTextNodeId, usedLocations,
                        textNodeCache, returned, thrown>>
         /\ UNCHANGED <<lastAnalyzedElement, lastSelectionRange, selectionVars,
                        captureVars>>
    ELSE /\ becomes(IF isActive THEN deactivate(script) ELSE activate(script))
         /\ UNCHANGED <<locatorVars, activeHighlights, fragments, captureVars>>

\* lines 522-535: an analysis comes to its end, with the dialog or a toast
AnalysisSettles ==
  /\ analyses > 0
  /\ analyses' = analyses - 1
  /\ UNCHANGED <<locatorVars, highlightVars, captureVars>>
  /\ UNCHANGED <<isActive, hoveredElement, listeners, outlined, cursor>>

NextSelection ==
  \/ Toggle
  \/ MouseOver
  \/ MouseOut
  \/ Click
  \/ AnalysisSettles
  \/ HighlightButton
  \/ ClearHighlights

SelectionSentenceLists ==
  {<<sentenceObj(<<"b">>, 0), sentenceObj(<<"a", " ", "a">>, 50)>>}

InitSelection ==
  /\ doc = MixedDoc
  /\ sentences \in SelectionSentenceLists
  /\ options = noOptions
  /\ docHandle = TheDocument
  /\ Loaded
  /\ ScriptLoaded

SpecSelection == InitSelection /\ [][NextSelection]_vars

\* ------------------------------------------------------------ the capture store

\* line 501: the most captures the store keeps
MaxStored == 50

\* calls of saveCapture
MaxSaves == 3

(* A capture is the number of the call that made it, in the order of the
   calls (its id and timestamp are the time of the call); the captures the
   store held before the first call are 0, -1, -2, ... from the newest. *)
storedBefore(n) == [k \in 1..n |-> 1 - k]

\* lines 500-503: unshift, and one pop when the list is longer than MaxStored
withCapture(list, capture) ==
  LET longer == <<capture>> \o list
  IN  IF Len(longer) > MaxStored THEN SubSeq(longer, 1, Len(longer) - 1)
      ELSE longer

\* lines 487-497: a call makes its capture and asks the store for the list
SaveCaptureStart ==
  /\ Len(saves) < MaxSaves
  /\ saves' = Append(saves, [pc |-> "get", captures |-> <<>>])
  /\ UNCHANGED <<captures, locatorVars, highlightVars, selectionVars>>

\* lines 497-505: the list arrives; the call puts its capture in front and
\* asks the store to write the list
StorageGet ==
  \E call \in DOMAIN saves :
    /\ saves[call].pc = "get"
    /\ saves' = [saves EXCEPT ![call] =
                   [pc |-> "set", captures |-> withCapture(captures, call)]]
    /\ UNCHANGED <<captures, locatorVars, highlightVars, selectionVars>>

\* lines 505-506: the store writes the list of the call, and the call returns
StorageSet ==
  \E call \in DOMAIN saves :
    /\ saves[call].pc = "set"
    /\ captures' = saves[call].captures
    /\ saves' = [saves EXCEPT ![call].pc = "done"]
    /\ UNCHANGED <<locatorVars, highlightVars, selectionVars>>

NextCaptures == SaveCaptureStart \/ StorageGet \/ StorageSet

InitCaptures ==
  /\ doc = <<element("HTML", NoNode), element("BODY", 1)>>
  /\ sentences = <<>>
  /\ options = noOptions
  /\ docHandle = TheDocument
  /\ Loaded
  /\ isActive = FALSE
  /\ hoveredElement = NoNode
  /\ activeHighlights = <<>>
  /\ lastAnalyzedElement = NoNode
  /\ lastSelectionRange = NoRange
  /\ fragments = <<>>
  /\ listeners = {}
  /\ outlined = {}
  /\ cursor = ""
  /\ analyses = 0
  /\ captures \in {storedBefore(n) : n \in {0, 1, MaxStored - 1, MaxStored}}
  /\ saves = <<>>

SpecCaptures == InitCaptures /\ [][NextCaptures]_vars

\* ------------------------------------------------------------ properties

Calls == DOMAIN returned

\* the positions <<s, k>> of the locations of one call's result
Positions(res) ==
  UNION {{<<s, k>> : k \in 1..Len(res[s].locations)} : s \in 1..Len(res)}

LocationAt(res, p) == res[p[1]].locations[p[2]]

\* every WordLocation any call returned
AllLocations ==
  UNION {{LocationAt(returned[c], p) : p \in Positions(returned[c])} : c \in Calls}

\* C1: every call returns one result per input sentence, in input order.
C1_LengthPreserved ==
  \A c \in Calls :
    /\ Len(returned[c]) = Len(sentences)
    /\ \A i \in 1..Len(sentences) :
         i <= Len(returned[c]) => returned[c][i].sentence = sentences[i].sentence

\* a call answered two sentences, one with locations and one without
C1_Witness ==
  \E c \in Calls :
    /\ Len(sentences) = 2
    /\ Len(returned[c]) = 2
    /\ returned[c][1].locations = <<>>
    /\ returned[c][2].locations # <<>>

\* C2: result i carries sentence i and its score unmodified, whatever was
\* located.
C2_FieldPassthrough ==
  \A c \in Calls :
    \A i \in DOMAIN returned[c] :
      i \in DOMAIN sentences =>
        /\ returned[c][i].sentence = sentences[i].sentence
        /\ returned[c][i].generated_prob = sentences[i].generated_prob

\* a result of a sentence that normalisation would change, with some of its
\* words located and some not
C2_Witness ==
  \E c \in Calls :
    \E i \in DOMAIN returned[c] :
      /\ sentences[i].sentence # normalizeText(sentences[i].sentence)
      /\ sentences[i].generated_prob # 0
      /\ Len(returned[c][i].locations) > 0
      /\ Len(returned[c][i].locations) < Len(extractWords(sentences[i].sentence))

Span(loc) == <<loc.textNode, loc.startOffset, loc.endOffset>>

\* C3: within one call's output no two locations have the same
\* (leaf, startOffset, endOffset).
C3_NoDuplicateClaims ==
  \A c \in Calls :
    \A p, q \in Positions(returned[c]) :
      p # q => Span(LocationAt(returned[c], p)) # Span(LocationAt(returned[c], q))

\* a word went without a location although the matcher has a candidate for
\* it: every candidate was claimed
C3_Witness ==
  \E c \in Calls :
    \E i \in DOMAIN returned[c] :
      \E w \in DOMAIN extractWords(sentences[i].sentence) :
        LET word == extractWords(sentences[i].sentence)[w].word
            cands == findWordInTextNodes(doc, scopeTextNodes(doc, options),
                                         word, <<>>).matches
        IN  /\ cands # <<>>
            /\ Cardinality({p \in Positions(returned[c]) :
                  Span(LocationAt(returned[c], p)) \in
                    {Span(cands[k]) : k \in DOMAIN cands}})
                 = Cardinality({Span(cands[k]) : k \in DOMAIN cands})
            /\ Len(returned[c][i].locations)
                 < Len(extractWords(sentences[i].sentence))

Disjoint(a, b) == a.endOffset <= b.startOffset \/ b.endOffset <= a.startOffset

\* C4: two distinct locations of one call in the same leaf have disjoint
\* ranges [startOffset, endOffset).
C4_NoOverlapInLeaf ==
  \A c \in Calls :
    \A p, q \in Positions(returned[c]) :
      LET a == LocationAt(returned[c], p)
          b == LocationAt(returned[c], q)
      IN  (p # q /\ a.textNode = b.textNode) => Disjoint(a, b)

\* C5: 0 <= startOffset < endOffset <= length of the leaf's original content.
C5_OffsetsValid ==
  \A loc \in AllLocations :
    /\ 0 <= loc.startOffset
    /\ loc.startOffset < loc.endOffset
    /\ loc.endOffset <= Len(doc[loc.textNode].content)

\* the class of the matcher, with the hyphen, which the repository's test of
\* the extracted text strips too
StripClass == PunctClass \cup WhiteSpace \cup {"-"}

stripped(s) == SelectSeq(toLowerCase(s), LAMBDA c : c \notin StripClass)

IsSubstring(x, y) ==
  \E i \in 0..(Len(y) - Len(x)) : SubSeq(y, i + 1, i + Len(x)) = x

extracted(loc) ==
  SubSeq(doc[loc.textNode].content, loc.startOffset + 1, loc.endOffset)

(* C6: the text at [startOffset, endOffset) of the leaf, lowercased and
   stripped of the punctuation/whitespace class, contains the equally
   stripped word or is contained in it. *)
C6_ExtractionContainment ==
  \A loc \in AllLocations :
    \/ IsSubstring(stripped(loc.word), stripped(extracted(loc)))
    \/ IsSubstring(stripped(extracted(loc)), stripped(loc.word))

\* C7: the container of every location is an element that is an ancestor of
\* the location's leaf.
C7_ContainerContainsLeaf ==
  \A loc \in AllLocations :
    /\ loc.containerElement \in DOMAIN doc
    /\ doc[loc.containerElement].kind = "element"
    /\ loc.containerElement # loc.textNode
    /\ contains(doc, loc.containerElement, loc.textNode)

\* a location whose container is not the leaf's parent but an element
\* further up
C7_Witness ==
  \E loc \in AllLocations :
    /\ loc.containerElement # parentElement(doc, loc.textNode)
    /\ contains(doc, loc.containerElement, loc.textNode)

ClaimedTags == meaningfulTags \ {"TH"}

\* C8 as claimed: the tag of every container is in the list the claim gives
\* (the allow-list of the code without TH).
C8_ContainerInClaimedList ==
  \A loc \in AllLocations : doc[loc.containerElement].tag \in ClaimedTags

(* C8 as amended: the tag of the container is in the allow-list of the code
   (with TH), or no element above the leaf has such a tag and the container
   is the leaf's parent element. *)
C8_ContainerTag ==
  \A loc \in AllLocations :
    \/ doc[loc.containerElement].tag \in meaningfulTags
    \/ /\ \A e \in DOMAIN doc :
            (e # loc.textNode /\ contains(doc, e, loc.textNode))
              => doc[e].tag \notin meaningfulTags
       /\ loc.containerElement = parentElement(doc, loc.textNode)

\* one call located a word in a table header cell and another word in a leaf
\* with no meaningful element above it
C8_Witness ==
  \E a, b \in AllLocations :
    /\ doc[a.containerElement].tag = "TH"
    /\ doc[b.containerElement].tag \notin meaningfulTags

(* C9: a second call on the same document with the same sentences returns
   what the first call returned: the spans the first call claimed are not
   claimed for the second. *)
C9_ClaimsScopedToCall ==
  \A c1, c2 \in Calls : returned[c1] = returned[c2]

\* two calls were made and the first one claimed spans in two leaves
C9_Witness ==
  /\ Len(returned) >= 2
  /\ nextTextNodeId >= 2
  /\ \E s \in DOMAIN returned[1] : Len(returned[1][s].locations) >= 2

\* two surface forms are the same word: equal up to letter case
sameWord(v, w) == toLowerCase(v) = toLowerCase(w)

\* how many tokens of the sentence are the word w
timesIn(sentence, w) ==
  LET words == extractWords(sentence)
  IN  Cardinality({u \in DOMAIN words : sameWord(words[u].word, w)})

\* the spans of the valid occurrences of w in one leaf
occurrencesIn(leaf, w) ==
  LET found == findWordInTextNodes(doc, <<leaf>>, w, <<>>).matches
  IN  {Span(found[k]) : k \in DOMAIN found}

scopeLeaves ==
  LET nodes == scopeTextNodes(doc, options)
  IN  {nodes[k] : k \in DOMAIN nodes}

\* the locations of sentence i of a result whose word is w
locationsOf(res, i, w) ==
  {j \in DOMAIN res[i].locations : sameWord(res[i].locations[j].word, w)}

\* the tokens <<call, sentence, word>> the claim is about
Tokens ==
  UNION {UNION {{<<c, i, extractWords(sentences[i].sentence)[t].word>> :
                   t \in DOMAIN extractWords(sentences[i].sentence)} :
                i \in DOMAIN returned[c]} : c \in Calls}

(* C10 as claimed: when a sentence contains a word k times and one leaf of
   the scope holds at least k valid occurrences of it, the sentence's result
   has k locations for the word, with pairwise distinct start offsets. *)
C10_RepeatedWordAllLocated ==
  \A tok \in Tokens :
    LET res == returned[tok[1]]
        i == tok[2]
        w == tok[3]
        k == timesIn(sentences[i].sentence, w)
        locs == locationsOf(res, i, w)
    IN  (\E leaf \in scopeLeaves : Cardinality(occurrencesIn(leaf, w)) >= k)
          => /\ Cardinality(locs) = k
             /\ \A j1, j2 \in locs :
                  j1 # j2 => res[i].locations[j1].startOffset
                               # res[i].locations[j2].startOffset

\* the spans that earlier sentences and other words of sentence i hold
claimedByOthers(res, i, w) ==
  {Span(res[s].locations[j]) : <<s, j>> \in
     {p \in Positions(res) :
        \/ p[1] < i
        \/ p[1] = i /\ ~sameWord(res[i].locations[p[2]].word, w)}}

(* C10 as amended: when a sentence contains a word k times and one leaf of
   the scope holds at least k valid occurrences of it that no earlier
   sentence and no other word of the sentence has claimed, the sentence's
   result has k locations for the word, pairwise distinct in
   (leaf, start offset). *)
C10_RepeatedWordUnclaimed ==
  \A tok \in Tokens :
    LET res == returned[tok[1]]
        i == tok[2]
        w == tok[3]
        k == timesIn(sentences[i].sentence, w)
        locs == locationsOf(res, i, w)
    IN  (\E leaf \in scopeLeaves :
           Cardinality(occurrencesIn(leaf, w) \ claimedByOthers(res, i, w)) >= k)
          => /\ Cardinality(locs) = k
             /\ \A j1, j2 \in locs :
                  j1 # j2 =>
                    <<res[i].locations[j1].textNode, res[i].locations[j1].startOffset>>
                      # <<res[i].locations[j2].textNode, res[i].locations[j2].startOffset>>

\* a word stands twice in the second sentence, the first sentence and another
\* word have claimed spans, and a leaf still holds two occurrences for it
C10_Witness ==
  \E tok \in Tokens :
    LET res == returned[tok[1]]
        i == tok[2]
        w == tok[3]
    IN  /\ i = 2
        /\ timesIn(sentences[i].sentence, w) >= 2
        /\ res[1].locations # <<>>
        /\ \E j \in DOMAIN res[i].locations : ~sameWord(res[i].locations[j].word, w)
        /\ \E leaf \in scopeLeaves :
             Cardinality(occurrencesIn(leaf, w) \ claimedByOthers(res, i, w))
               >= timesIn(sentences[i].sentence, w)

\* ------------------------------------------------------------ pages that render the sentences

\* the paragraph and the leaf of sentence i in a page of one paragraph per
\* sentence
paragraphOf(i) == 2 * i + 1

leafOf(i) == 2 * i + 2

\* paragraph i holds sentence i verbatim, for every sentence
HeldVerbatim ==
  /\ Len(doc) = 2 + 2 * Len(sentences)
  /\ \A i \in DOMAIN sentences :
       /\ doc[paragraphOf(i)].kind = "element"
       /\ doc[leafOf(i)].kind = "text"
       /\ doc[leafOf(i)].parent = paragraphOf(i)
       /\ doc[leafOf(i)].content = sentences[i].sentence

\* a token as a word: normalised, lowercased, without the punctuation class
wordKey(w) == stripPunct(toLowerCase(normalizeText(w)))

tokensOf(sentence) ==
  {extractWords(sentence)[t].word : t \in DOMAIN extractWords(sentence)}

occursOnce(sentence, w) ==
  LET words == extractWords(sentence)
  IN  Cardinality({u \in DOMAIN words : wordKey(words[u].word) = wordKey(w)}) = 1

\* the words every sentence contains exactly once
CommonWords ==
  IF sentences = <<>> THEN {}
  ELSE {w \in tokensOf(sentences[1].sentence) :
          /\ wordKey(w) # <<>>
          /\ \A i \in DOMAIN sentences : occursOnce(sentences[i].sentence, w)}

(* C11: when every sentence contains a word exactly once and paragraph i
   holds sentence i verbatim, the location of that word in result i exists
   and its container is paragraph i. *)
C11_OwnContainer ==
  \A c \in Calls :
    (thrown[c] = NoError /\ HeldVerbatim /\ Len(sentences) >= 2) =>
      \A w \in CommonWords :
        \A i \in DOMAIN returned[c] :
          LET locs == {j \in DOMAIN returned[c][i].locations :
                         wordKey(returned[c][i].locations[j].word) = wordKey(w)}
          IN  /\ locs # {}
              /\ \A j \in locs :
                   returned[c][i].locations[j].containerElement = paragraphOf(i)

\* the leaves of the scope whose text is sentence i up to the substitutions
\* of normalizeText
renderingsOf(i) ==
  {leaf \in scopeLeaves :
     normalizeText(doc[leaf].content) = normalizeText(sentences[i].sentence)}

\* result i has a location for the token w
located(res, i, w) ==
  \E j \in DOMAIN res[i].locations : res[i].locations[j].word = w

(* C12: when a leaf of the scope differs from sentence i only by the
   substitutions of normalizeText (curly or straight quotes, dash or arrow
   or hyphen, whitespace runs), every word of the sentence that is not
   punctuation alone has a location in result i. *)
C12_LocatedThroughSubstitutions ==
  \A c \in Calls :
    thrown[c] = NoError =>
      \A i \in DOMAIN returned[c] :
        renderingsOf(i) # {} =>
          \A w \in tokensOf(sentences[i].sentence) :
            wordKey(w) # <<>> => located(returned[c], i, w)

\* the comparison form of the repository's test of located words:
\* .replace(/[.,!?;:'"()\-]/g, '').toLowerCase()
comparable(w) ==
  toLowerCase(SelectSeq(w, LAMBDA ch :
    ch \notin {".", ",", "!", "?", ";", ":", "'", "\"", "(", ")", "-"}))

\* sentence i stands verbatim in a text leaf of the scope
appearsVerbatim(i) ==
  /\ sentences[i].sentence # <<>>
  /\ \E leaf \in scopeLeaves :
       IsSubstring(sentences[i].sentence, doc[leaf].content)

(* C13: for a sentence that stands verbatim in a text leaf of the searched
   document, every whitespace-delimited word has a location in the
   sentence's result whose word, in comparison form, equals the word,
   contains it or is contained in it. *)
C13_EveryWordLocated ==
  \A c \in Calls :
    thrown[c] = NoError =>
      \A i \in DOMAIN returned[c] :
        appearsVerbatim(i) =>
          \A w \in tokensOf(sentences[i].sentence) :
            \E j \in DOMAIN returned[c][i].locations :
              LET found == comparable(returned[c][i].locations[j].word)
              IN  \/ IsSubstring(comparable(w), found)
                  \/ IsSubstring(found, comparable(w))

\* ------------------------------------------------------------ sentences in attributes

\* sentence i is the value of an attribute and stands in no text node
attributeOnly(i) ==
  /\ \E n \in DOMAIN doc :
       doc[n].kind = "attr" /\ IsSubstring(sentences[i].sentence, doc[n].content)
  /\ \A n \in DOMAIN doc :
       doc[n].kind = "text" => ~IsSubstring(sentences[i].sentence, doc[n].content)

containersOf(locations) ==
  {locations[j].containerElement : j \in DOMAIN locations}

\* result i has a location for every word, all of them in one container
fullInOneContainer(res, i) ==
  /\ res[i].locations # <<>>
  /\ Len(res[i].locations) = Len(extractWords(sentences[i].sentence))
  /\ Cardinality(containersOf(res[i].locations)) = 1

(* C14 as claimed: for a sentence that exists only as an attribute value the
   result never has as many locations as the sentence has words with all of
   them inside one single container. *)
C14_NeverFullInOneContainer ==
  \A c \in Calls :
    \A i \in DOMAIN returned[c] :
      attributeOnly(i) => ~fullInOneContainer(returned[c], i)

(* C14 as amended: for a sentence that exists only as an attribute value,
   every location lies in a text node, never in the attribute; and when the
   result has as many locations as words inside one single container, the
   text leaves below that container hold an occurrence of every word. *)
C14_AttributeNotSearched ==
  \A c \in Calls :
    \A i \in DOMAIN returned[c] :
      attributeOnly(i) =>
        /\ \A j \in DOMAIN returned[c][i].locations :
             doc[returned[c][i].locations[j].textNode].kind = "text"
        /\ fullInOneContainer(returned[c], i) =>
             \A x \in containersOf(returned[c][i].locations) :
               \A w \in tokensOf(sentences[i].sentence) :
                 \E leaf \in textNodesOf(doc) :
                   /\ contains(doc, x, leaf)
                   /\ occurrencesIn(leaf, w) # {}

\* the words of a sentence that only an alt attribute holds were all located
\* inside one paragraph
C14_Witness ==
  \E c \in Calls :
    \E i \in DOMAIN returned[c] :
      /\ attributeOnly(i)
      /\ fullInOneContainer(returned[c], i)
      /\ \E n \in DOMAIN doc : doc[n].kind = "attr" /\ doc[n].tag = "alt"

\* ------------------------------------------------------------ errors

\* Node.isConnected: the node is part of the document
isConnected(n) == contains(doc, 1, n)

\* the scope descriptor names a node that is not part of the document
scopeDetached ==
  \/ options.range # NoRange /\ ~isConnected(options.range.startContainer)
  \/ options.rootElement # NoNode /\ ~isConnected(options.rootElement)

(* C15: a call with a document handle never throws: with words that have no
   match, empty sentences, an empty list or a scope without text leaves it
   returns one result per sentence. *)
C15_NeverThrows ==
  \A c \in Calls :
    docHandle = TheDocument =>
      /\ thrown[c] = NoError
      /\ Len(returned[c]) = Len(sentences)

\* a call answered an empty sentence and a word without any candidate
C15_Witness ==
  \E c \in Calls :
    /\ docHandle = TheDocument
    /\ \E i \in DOMAIN sentences : sentences[i].sentence = <<>>
    /\ \E i \in DOMAIN sentences :
         \E w \in tokensOf(sentences[i].sentence) :
           findWordInTextNodes(doc, scopeTextNodes(doc, options), w, <<>>).matches = <<>>
    /\ \A i \in DOMAIN returned[c] : returned[c][i].locations = <<>>

(* C16: a call with a null document handle, or with a scope descriptor that
   names a node detached from the document, throws. *)
C16_FailsFast ==
  \A c \in Calls :
    (docHandle = NoDocument \/ scopeDetached) => thrown[c] # NoError

\* ------------------------------------------------------------ the claim set

\* the candidates of a word, in matcher order
candidates(w) == findWordInTextNodes(doc, scopeTextNodes(doc, options), w, <<>>).matches

\* the first candidate whose (leaf, startOffset, endOffset) is not claimed;
\* 0 when there is none
firstUnclaimed(cands, claimed) ==
  LET free == {k \in DOMAIN cands : Span(cands[k]) \notin claimed}
  IN  IF free = {} THEN 0 ELSE CHOOSE k \in free : \A m \in free : k <= m

(* The commitments as the design states them: the tokens in sentence order
   and token order, each taking its first unclaimed candidate.  The value is
   the locations of the sentences from s on, and the claim set at the end. *)
RECURSIVE committed(_, _, _, _)
committed(s, t, claimed, locations) ==
  IF s > Len(sentences) THEN [results |-> <<>>, claimed |-> claimed]
  ELSE LET words == extractWords(sentences[s].sentence)
       IN  IF t > Len(words)
           THEN LET rest == committed(s + 1, 1, claimed, <<>>)
                IN  [results |-> <<locations>> \o rest.results,
                     claimed |-> rest.claimed]
           ELSE LET cands == candidates(words[t].word)
                    k == firstUnclaimed(cands, claimed)
                IN  IF k = 0 THEN committed(s, t + 1, claimed, locations)
                    ELSE committed(s, t + 1, claimed \cup {Span(cands[k])},
                                   Append(locations, cands[k]))

\* the claim set of the code, with the leaves in place of their ids
claimedSpans ==
  UNION {{<<leaf, key[2], key[3]>> :
            leaf \in {n \in DOMAIN textNodeIds : textNodeIds[n] = key[1]}} :
         key \in usedLocations}

(* C17: the locations of every result are those of the tokens taken in
   sentence order and token order, each committing its first candidate in
   matcher order whose (leaf, startOffset, endOffset) no earlier token
   committed, a token without such a candidate contributing nothing; and the
   claim set holds exactly the committed triples. *)
C17_FirstUnclaimedCommitted ==
  \A c \in Calls :
    thrown[c] = NoError =>
      LET design == committed(1, 1, {}, <<>>)
      IN  /\ [i \in DOMAIN returned[c] |-> returned[c][i].locations] = design.results
          /\ claimedSpans = design.claimed

\* one word committed a candidate that is not its first, and another word
\* with candidates went without a location
C17_Witness ==
  \E c \in Calls :
    /\ \E p \in Positions(returned[c]) :
         LET loc == LocationAt(returned[c], p)
         IN  Span(loc) # Span(candidates(loc.word)[1])
    /\ \E i \in DOMAIN returned[c] :
         \E w \in tokensOf(sentences[i].sentence) :
           candidates(w) # <<>> /\ ~located(returned[c], i, w)

\* ------------------------------------------------------------ the word matcher

\* every token of the sentences of the call
AllTokens == UNION {tokensOf(sentences[i].sentence) : i \in DOMAIN sentences}

\* the place of a leaf in the collected leaf order
leafPosition(leaf) ==
  LET nodes == scopeTextNodes(doc, options)
  IN  CHOOSE k \in DOMAIN nodes : nodes[k] = leaf

\* a comes before b in document order
before(a, b) ==
  \/ leafPosition(a.textNode) < leafPosition(b.textNode)
  \/ a.textNode = b.textNode /\ a.startOffset < b.startOffset

(* C18 as claimed: of any two matches the matcher returns for a word, the
   one in the earlier leaf, or with the smaller start offset in the same
   leaf, comes earlier in the list. *)
C18_DocumentOrder ==
  Calls # {} =>
    \A w \in AllTokens :
      \A x, y \in DOMAIN candidates(w) :
        before(candidates(w)[x], candidates(w)[y]) => x < y

(* C18 as amended: of any two matches the matcher returns for a word, the
   one in the earlier leaf of the collected leaf order comes earlier in the
   list. *)
C18_LeafOrder ==
  Calls # {} =>
    \A w \in AllTokens :
      \A x, y \in DOMAIN candidates(w) :
        leafPosition(candidates(w)[x].textNode) < leafPosition(candidates(w)[y].textNode)
          => x < y

\* a word has matches in two leaves, and in one leaf two matches of which the
\* later in the list has the smaller start offset
C18_Witness ==
  /\ Calls # {}
  /\ \E w \in AllTokens :
       \E x, y, z \in DOMAIN candidates(w) :
         /\ x < y
         /\ candidates(w)[x].textNode = candidates(w)[y].textNode
         /\ candidates(w)[y].startOffset < candidates(w)[x].startOffset
         /\ candidates(w)[z].textNode # candidates(w)[x].textNode

\* the two search terms of a word
strippedTerm(w) == wordKey(w)

noHyphenTerm(w) == stripHyphen(wordKey(w))

\* the word has a hyphen-removed term of its own
hyphenated(w) == noHyphenTerm(w) # strippedTerm(w) /\ noHyphenTerm(w) # <<>>

\* the matches of one term in one leaf
matchesOfTerm(leaf, w, term) ==
  scanTerm(doc, leaf, toLowerCase(normalizeText(doc[leaf].content)), term, w, 0)

\* the matches of a word in the leaves from place k on: leaf by leaf, the
\* hyphen-preserving term first
RECURSIVE strippedFirst(_, _)
strippedFirst(w, k) ==
  LET nodes == scopeTextNodes(doc, options)
  IN  IF k > Len(nodes) THEN <<>>
      ELSE matchesOfTerm(nodes[k], w, strippedTerm(w))
             \o matchesOfTerm(nodes[k], w, noHyphenTerm(w))
             \o strippedFirst(w, k + 1)

spansOf(matches) == {Span(matches[k]) : k \in DOMAIN matches}

\* position p comes before position q in the results of a call
earlier(p, q) == p[1] < q[1] \/ (p[1] = q[1] /\ p[2] < q[2])

(* C19: for a word with a hyphen the matcher's list is, leaf by leaf in leaf
   order, the matches of the hyphen-preserving term followed by those of the
   hyphen-removed term; and a location committed for such a word on a
   hyphen-removed match lies in a leaf whose hyphen-preserving matches were
   all claimed before. *)
C19_StrippedBeforeNoHyphen ==
  \A c \in Calls :
    thrown[c] = NoError =>
      /\ \A w \in AllTokens : hyphenated(w) => candidates(w) = strippedFirst(w, 1)
      /\ \A p \in Positions(returned[c]) :
           LET loc == LocationAt(returned[c], p)
               exact == spansOf(matchesOfTerm(loc.textNode, loc.word,
                                              strippedTerm(loc.word)))
           IN  (hyphenated(loc.word) /\ Span(loc) \notin exact) =>
                 \A span \in exact :
                   \E q \in Positions(returned[c]) :
                     earlier(q, p) /\ Span(LocationAt(returned[c], q)) = span

(* a word with a hyphen has, in the first leaf, a hyphen-removed match at a
   smaller offset than its hyphen-preserving match, and a hyphen-preserving
   match in a later leaf; the call committed the hyphen-preserving match of
   the first leaf for it *)
C19_Witness ==
  \E c \in Calls :
    \E p \in Positions(returned[c]) :
      LET loc == LocationAt(returned[c], p)
          w == loc.word
          nodes == scopeTextNodes(doc, options)
      IN  /\ hyphenated(w)
          /\ Len(nodes) >= 2
          /\ loc.textNode = nodes[1]
          /\ Span(loc) \in spansOf(matchesOfTerm(nodes[1], w, strippedTerm(w)))
          /\ \E m \in spansOf(matchesOfTerm(nodes[1], w, noHyphenTerm(w))) :
               m[2] < loc.startOffset
          /\ matchesOfTerm(nodes[2], w, strippedTerm(w)) # <<>>

\* the class of the claim: whitespace, or one of . , ! ? ; : ' " ( ) [ ]
ClaimedBoundary ==
  {" ", "NL", ".", ",", "!", "?", ";", ":", "'", "\"", "(", ")", "[", "]"}

\* the occurrence of term at 0-based index f of content is a whole word
wholeWordAt(content, term, f) ==
  /\ occursAt(content, term, f)
  /\ (f = 0 \/ content[f] \in ClaimedBoundary)
  /\ (f + Len(term) = Len(content) \/ content[f + Len(term) + 1] \in ClaimedBoundary)

RECURSIVE ascending(_)
ascending(S) ==
  IF S = {} THEN <<>>
  ELSE LET least == CHOOSE x \in S : \A y \in S : x <= y
       IN  <<least>> \o ascending(S \ {least})

\* the matches of the whole-word occurrences of a term in a leaf
wholeWordMatches(leaf, w, term) ==
  LET content == toLowerCase(normalizeText(doc[leaf].content))
      at == ascending({f \in 0..Len(content) : wholeWordAt(content, term, f)})
  IN  [k \in DOMAIN at |-> makeMatch(doc, leaf, w, term, at[k])]

(* C20: the matches the matcher returns for a word in a leaf are those of
   the occurrences of its search terms in the leaf's normalized content that
   have a boundary character or the leaf's edge on both sides, and no
   others. *)
C20_WordBoundary ==
  Calls # {} =>
    \A w \in AllTokens :
      \A leaf \in scopeLeaves :
        SelectSeq(candidates(w), LAMBDA m : m.textNode = leaf)
          = IF strippedTerm(w) = <<>> THEN <<>>
            ELSE wholeWordMatches(leaf, w, strippedTerm(w))
                   \o (IF hyphenated(w)
                       THEN wholeWordMatches(leaf, w, noHyphenTerm(w))
                       ELSE <<>>)

\* the characters next to the occurrence at index f: before it, after it
neighbours(content, term, f) ==
  {content[g] : g \in {f, f + Len(term) + 1} \cap DOMAIN content}

\* a word occurs in a leaf inside a longer word and next to a hyphen, has no
\* match there, and has a match in another leaf
C20_Witness ==
  /\ Calls # {}
  /\ \E w \in AllTokens :
       \E leaf, other \in scopeLeaves :
         LET content == toLowerCase(normalizeText(doc[leaf].content))
             term == strippedTerm(w)
             at == {f \in 0..Len(content) : occursAt(content, term, f)}
         IN  /\ term # <<>>
             /\ \E f \in at : "-" \in neighbours(content, term, f)
             /\ \E f \in at : neighbours(content, term, f) \cap {"a", "b", "c"} # {}
             /\ matchesOfTerm(leaf, w, term) = <<>>
             /\ matchesOfTerm(other, w, term) # <<>>

\* ------------------------------------------------------------ offset mapping

(* For each character of the lowercased normalized content of a text, the
   0-based index of the character of the original text it comes from: a
   whitespace run gives one space, that of its first character; leading and
   trailing whitespace gives nothing; every other character gives as many
   characters as its lower case has. *)
RECURSIVE originsFrom(_, _)
originsFrom(original, p) ==
  IF p >= Len(original) THEN <<>>
  ELSE LET c == original[p + 1]
           here ==
             IF c \in WhiteSpace
             THEN IF \/ \A q \in 0..p : original[q + 1] \in WhiteSpace
                     \/ \A q \in p..(Len(original) - 1) : original[q + 1] \in WhiteSpace
                     \/ original[p] \in WhiteSpace
                  THEN <<>>
                  ELSE <<p>>
             ELSE [k \in 1..Len(lowerChar(substituteChar(c))) |-> p]
       IN  here \o originsFrom(original, p + 1)

origins(original) == originsFrom(original, 0)

\* the whole-word occurrences of a term in a leaf, in scan order
wholeWordIndices(leaf, term) ==
  LET content == toLowerCase(normalizeText(doc[leaf].content))
  IN  ascending({f \in 0..Len(content) : wholeWordAt(content, term, f)})

termsOf(w) ==
  IF strippedTerm(w) = <<>> THEN {}
  ELSE IF hyphenated(w) THEN {strippedTerm(w), noHyphenTerm(w)}
  ELSE {strippedTerm(w)}

(* C21: the startOffset reported for the occurrence at index i of a leaf's
   normalized content is the index, in the leaf's original content, of the
   character that normalized position i comes from. *)
C21_StartOffsetMapsBack ==
  Calls # {} =>
    \A w \in AllTokens :
      \A leaf \in scopeLeaves :
        \A term \in termsOf(w) :
          LET found == matchesOfTerm(leaf, w, term)
              at == wholeWordIndices(leaf, term)
              from == origins(doc[leaf].content)
          IN  \A k \in DOMAIN found :
                (k \in DOMAIN at /\ at[k] + 1 \in DOMAIN from)
                  => found[k].startOffset = from[at[k] + 1]

\* the origins are those of the normalized content: one per character
OriginsWellFormed ==
  \A leaf \in textNodesOf(doc) :
    Len(origins(doc[leaf].content))
      = Len(toLowerCase(normalizeText(doc[leaf].content)))

\* ------------------------------------------------------------ hyphen tolerance

\* the leaf renders the word w, up to hyphens: its normalized content and the
\* word's term are equal once the hyphens are removed from both
rendersUpToHyphens(leaf, w) ==
  /\ noHyphenTerm(w) # <<>>
  /\ stripHyphen(toLowerCase(normalizeText(doc[leaf].content))) = noHyphenTerm(w)

(* C22: a word has a match in every leaf that renders it up to hyphens,
   whether the hyphen is in the word and not in the leaf or in the leaf and
   not in the word. *)
C22_HyphenBothWays ==
  Calls # {} =>
    \A w \in AllTokens :
      \A leaf \in scopeLeaves :
        rendersUpToHyphens(leaf, w) =>
          \E k \in DOMAIN candidates(w) : candidates(w)[k].textNode = leaf

\* ------------------------------------------------------------ punctuation tokens

\* the punctuation class as the design lists it
ClaimedPunctuation ==
  {".", ",", "!", "?", ";", ":", "'", "\"", "(", ")", "[", "]"}

\* nothing is left of the token once it is normalized and the class is
\* stripped
emptyWhenStripped(w) ==
  \A k \in DOMAIN normalizeText(w) : normalizeText(w)[k] \in ClaimedPunctuation

(* C23: a token of which nothing is left after normalization and stripping
   the punctuation class has no matches, no location in any result, and no
   entry in the claim set: the claim set has one entry per location. *)
C23_PunctuationUnlocatable ==
  \A c \in Calls :
    thrown[c] = NoError =>
      /\ \A w \in AllTokens :
           emptyWhenStripped(w) =>
             /\ candidates(w) = <<>>
             /\ \A p \in Positions(returned[c]) : LocationAt(returned[c], p).word # w
      /\ Cardinality(usedLocations) = Cardinality(Positions(returned[c]))

\* a sentence has a punctuation token that stands as a word of its own in a
\* leaf of the scope, and another word of the sentence was located
C23_Witness ==
  \E c \in Calls :
    \E i \in DOMAIN returned[c] :
      \E w \in tokensOf(sentences[i].sentence) :
        /\ emptyWhenStripped(w)
        /\ returned[c][i].locations # <<>>
        /\ \E leaf \in scopeLeaves :
             wholeWordIndices(leaf, toLowerCase(normalizeText(w))) # <<>>

\* ------------------------------------------------------------ the text-node collector

\* the leaf passes the filters of the collector
eligibleLeaf(leaf) ==
  /\ doc[leaf].kind = "text"
  /\ doc[leaf].parent # NoNode
  /\ doc[doc[leaf].parent].tag \notin {"SCRIPT", "STYLE", "NOSCRIPT"}
  /\ \E k \in DOMAIN doc[leaf].content : doc[leaf].content[k] \notin {" ", "NL"}

\* n lies below root in the tree
below(root, n) == n # root /\ contains(doc, root, n)

\* the root of a search without a range
subtreeRoot == IF options.rootElement # NoNode THEN options.rootElement ELSE documentBody

(* C24: the collector returns the leaves below the scope root whose parent
   element exists and is not SCRIPT, STYLE or NOSCRIPT and whose content is
   not whitespace only: all of them, no other, each once, in document
   order. *)
C24_CollectorExact ==
  (Calls # {} /\ options.range = NoRange) =>
    LET nodes == getTextNodes(doc, subtreeRoot)
    IN  /\ \A k \in DOMAIN nodes : k > 1 => nodes[k - 1] < nodes[k]
        /\ {nodes[k] : k \in DOMAIN nodes}
             = {n \in DOMAIN doc : eligibleLeaf(n) /\ below(subtreeRoot, n)}

\* the scope root has below it a leaf in a script, a leaf of whitespace and
\* two leaves the collector returns
C24_Witness ==
  /\ Calls # {}
  /\ options.range = NoRange
  /\ Len(getTextNodes(doc, subtreeRoot)) >= 2
  /\ \E n, m \in DOMAIN doc :
       /\ below(subtreeRoot, n) /\ below(subtreeRoot, m)
       /\ doc[n].kind = "text" /\ doc[m].kind = "text"
       /\ doc[doc[n].parent].tag = "SCRIPT"
       /\ doc[doc[m].parent].tag # "SCRIPT" /\ ~eligibleLeaf(m)

\* the elements that contain both boundary points of the range
commonElements ==
  {e \in DOMAIN doc :
     /\ doc[e].kind = "element"
     /\ contains(doc, e, options.range.startContainer)
     /\ contains(doc, e, options.range.endContainer)}

\* the leaf is neither wholly before the start of the range nor wholly after
\* its end
rangeReaches(leaf) ==
  options.range.startContainer <= leaf /\ leaf <= options.range.endContainer

\* the leaves a range makes eligible: below its common-ancestor element,
\* passing the filters, reached by the range
rangeLeaves ==
  {n \in DOMAIN doc :
     /\ eligibleLeaf(n)
     /\ rangeReaches(n)
     /\ commonElements # {}
     /\ \A e \in commonElements : below(e, n)}

(* C25: with a range as scope the collected leaves are exactly the leaves
   that pass the collector's filters below the range's common-ancestor
   element and that the range intersects, and every location lies in such a
   leaf. *)
C25_RangeLeaves ==
  (Calls # {} /\ options.range # NoRange) =>
    /\ scopeLeaves = rangeLeaves
    /\ \A loc \in AllLocations : loc.textNode \in rangeLeaves

\* a word was located in the leaf the range reaches while a leaf outside the
\* range, which passes the filters, holds the word too
C25_Witness ==
  /\ options.range # NoRange
  /\ \E loc \in AllLocations :
       \E other \in DOMAIN doc :
         /\ eligibleLeaf(other)
         /\ isConnected(other)
         /\ ~rangeReaches(other)
         /\ occurrencesIn(other, loc.word) # {}

\* ------------------------------------------------------------ container resolution

\* the elements above a leaf whose tag is in the allow-list
allowedAbove(leaf) ==
  {e \in DOMAIN doc : below(e, leaf) /\ doc[e].tag \in meaningfulTags}

(* C26: the container of a leaf is the nearest element above it whose tag is
   in the allow-list; when there is none it is the leaf's parent element,
   and the document body when the leaf has no parent element. *)
C26_NearestContainer ==
  Calls # {} =>
    \A leaf \in textNodesOf(doc) :
      LET container == getContainerElement(doc, leaf)
      IN  IF allowedAbove(leaf) # {}
          THEN /\ container \in allowedAbove(leaf)
               /\ \A e \in allowedAbove(leaf) : contains(doc, e, container)
          ELSE IF doc[leaf].parent # NoNode
          THEN container = doc[leaf].parent
          ELSE container = documentBody

\* a located word whose container is neither the leaf's parent nor the
\* outermost allow-listed element, in a page that also has a leaf with no
\* allow-listed element above it and a leaf without parent element
C26_Witness ==
  /\ \E loc \in AllLocations :
       /\ loc.containerElement # doc[loc.textNode].parent
       /\ \E e \in allowedAbove(loc.textNode) :
            e # loc.containerElement /\ contains(doc, e, loc.containerElement)
  /\ \E leaf \in textNodesOf(doc) :
       allowedAbove(leaf) = {} /\ doc[leaf].parent # NoNode
  /\ \E leaf \in textNodesOf(doc) : doc[leaf].parent = NoNode

\* ------------------------------------------------------------ scope of a search

\* the leaves of the requested scope: those of the range when there is one,
\* otherwise those below the root element, otherwise those below the body
requestedScope ==
  IF options.range # NoRange
  THEN rangeLeaves
  ELSE {n \in DOMAIN doc : eligibleLeaf(n) /\ below(subtreeRoot, n)}

(* C27: every location lies in a leaf of the requested scope: the range's
   leaves when a range is given, also when a root element is given with it,
   otherwise the leaves below the root element, otherwise those below the
   body. *)
C27_LocationsInScope ==
  \A loc \in AllLocations : loc.textNode \in requestedScope

\* range and root element are both given, a word was located in a leaf of
\* the range outside the root element, and the root element holds the word
\* too
C27_Witness ==
  /\ options.range # NoRange
  /\ options.rootElement # NoNode
  /\ \E loc \in AllLocations :
       /\ ~below(options.rootElement, loc.textNode)
       /\ \E other \in DOMAIN doc :
            /\ eligibleLeaf(other)
            /\ below(options.rootElement, other)
            /\ occurrencesIn(other, loc.word) # {}

\* ------------------------------------------------------------ highlights

\* the text a reader sees in the place of a text node
visibleText(n) ==
  IF n \in DOMAIN fragments THEN textContent(fragments[n]) ELSE doc[n].content

\* the marks of a fragment, in order
marksOf(n) == SelectSeq(fragments[n], LAMBDA piece : piece.mark)

\* the characters of the node between the offsets of a mark
markedText(n, m) ==
  [k \in 1..(IF m.endOffset > m.startOffset /\ m.startOffset >= 0
                  /\ m.endOffset <= Len(doc[n].content)
             THEN m.endOffset - m.startOffset ELSE 0) |->
     doc[n].content[m.startOffset + k]]

\* the spans of the sentences of the latest call in a node, in sentence order
spansIn(n) ==
  SelectSeq(sentenceSpans(returned[Len(returned)], 1), LAMBDA l : l.textNode = n)

(* C28: highlighting leaves the text of the page as it was: the text of each
   fragment is the content of the node it replaces, each mark holds the
   characters between its offsets, the marks of a node are in increasing
   order without overlap, and a span of a sentence that is not marked
   overlaps a marked span that sorts before it. *)
C28_TextPreserved ==
  \A n \in DOMAIN fragments :
    /\ visibleText(n) = doc[n].content
    /\ \A i \in DOMAIN marksOf(n) :
         /\ marksOf(n)[i].text = markedText(n, marksOf(n)[i])
         /\ \A j \in DOMAIN marksOf(n) :
              i < j => /\ marksOf(n)[i].endOffset <= marksOf(n)[j].startOffset
                       /\ marksOf(n)[i].startOffset <= marksOf(n)[j].startOffset
    /\ \A k \in DOMAIN spansIn(n) :
         LET span == spansIn(n)[k]
             isMark(m) == /\ m.startOffset = span.startOffset
                          /\ m.endOffset = span.endOffset
                          /\ m.color = span.color
         IN  \/ \E i \in DOMAIN marksOf(n) : isMark(marksOf(n)[i])
             \/ \E i \in DOMAIN marksOf(n) :
                  /\ marksOf(n)[i].startOffset <= span.startOffset
                  /\ span.startOffset < marksOf(n)[i].endOffset

\* a node holds a mark of one sentence while the span of another sentence,
\* which overlaps it, was dropped, and the mark leaves text before and after
C28_Witness ==
  \E n \in DOMAIN fragments :
    /\ Len(spansIn(n)) > Len(marksOf(n))
    /\ Len(marksOf(n)) >= 1
    /\ Len(fragments[n]) > Len(marksOf(n))

\* ------------------------------------------------------------ selection mode

(* C29: selection mode is active exactly when its three listeners are
   registered; activate in active mode and deactivate in inactive mode
   change nothing; a click that selection mode handles leaves it inactive,
   its listeners removed, whatever the element; no element has the hover
   outline while selection mode is inactive. *)
C29_ActiveIffListening ==
  /\ isActive => selectionListeners \subseteq listeners
  /\ ~isActive => listeners \cap selectionListeners = {}
  /\ isActive => activate(script) = script
  /\ ~isActive => deactivate(script) = script
  /\ \A target \in targets :
       LET clicked == onClick(script, doc, target)
       IN  /\ ~clicked.isActive
           /\ clicked.listeners \cap selectionListeners = {}
           /\ clicked.outlined = {}
  /\ ~isActive => outlined = {} /\ hoveredElement = NoNode
  /\ isActive => outlined = {hoveredElement} \ {NoNode}

\* selection mode was left by a click on an element that had the outline,
\* and the click started an analysis
C29_Witness ==
  /\ ~isActive
  /\ lastAnalyzedElement # NoNode
  /\ analyses > 0
  /\ cursor = ""

\* ------------------------------------------------------------ captures

\* every call made has returned
allSaved == \A call \in DOMAIN saves : saves[call].pc = "done"

(* C30: when every call of saveCapture has returned, the store holds the
   capture of each call that has fewer than MaxStored newer captures, the
   newest first, and no more than MaxStored captures. *)
C30_EveryCaptureStored ==
  allSaved =>
    /\ \A call \in DOMAIN saves :
         Len(saves) - call < MaxStored =>
           \E k \in DOMAIN captures : captures[k] = call
    /\ \A k \in DOMAIN captures : k > 1 => captures[k - 1] > captures[k]
    /\ Len(captures) <= MaxStored

====
